---------------------------- MODULE Spec2Model ----------------------------
(***************************************************************************)
(* Majority-network generator (final_generator.py).                        *)
(*                                                                         *)
(* A signal is a string, exactly the name the generator builds ("x[3]",    *)
(* "raw_s_c0_0", "K1", "1'b0").  A full-adder operation is the tuple the   *)
(* generator appends: <<col, kind, a, b, cin, s, k>> inside the scheduler  *)
(* and <<a, b, cin, s, k>> in a FAN.  A Python dict is a function whose    *)
(* DOMAIN is the set of keys; a list or deque is a sequence.               *)
(*                                                                         *)
(* A Python function is an operator.  Where the function computes a value  *)
(* and then reads it several times, the rest of the function is a second   *)
(* operator that takes the value as a parameter.                           *)
(***************************************************************************)
EXTENDS Integers, Sequences, FiniteSets, TLC

VARIABLES
    \* ---- synthesis of one width (Spec) ----
    n,              \* requested width (module constant N of the generator)
    fb,             \* result of emit_folded_bias(n)
    fbn,            \* result of build_folded_bias_netlist(n)
    bs,             \* result of emit_baseline_strict(n)
    bsn,            \* result of build_baseline_strict_netlist(n)
    x,              \* input assignment the FANs are evaluated on
    dec,            \* decisions of the FANs on x
    \* ---- one call of the scheduler (SpecSched) ----
    raw_inputs,             \* argument raw_inputs
    const_names_per_col,    \* argument const_names_per_col (a dict the call mutates)
    sched,                  \* value returned by csa_macro_schedule_all_columns
    sched_env,              \* bit values of the call's signals, after evaluating its adders
    sched_st,               \* frame of a call in progress, between two iterations of its loop (SpecSchedSteps)
    sched_iter,             \* how many steps of that call the interpreter has executed
    \* ---- one scaffold search (SpecScaffold) ----
    sc_cfg,         \* n, num_fix and the design whose larger network is searched
    sc_big,         \* the larger network main() builds before the search
    sc_cands,       \* what each iteration of _select_scaffold_layout computed
    sc_best,        \* value returned by _select_scaffold_layout
    sc_x,           \* input assignment the candidates are evaluated on
    sc_dec,         \* decision of every candidate on sc_x
    sc_layouts,     \* value returned by _scaffold_layout_sequences (SpecLayout)
    \* ---- the optimizer applied twice (SpecOpt) ----
    opt_in,         \* the FAN given to _constant_fold_and_prune
    opt_once,       \* its result
    opt_twice,      \* the result of applying it to opt_once
    \* ---- the emitter's gates (SpecEmit) ----
    gate,           \* a 3-input gate: kind and three operands, each with a mask bit
    out             \* the gates emitted so far, each with the order its operands were supplied in

vars_synth == <<n, fb, fbn, bs, bsn, x, dec>>
vars_sched == <<raw_inputs, const_names_per_col, sched, sched_env, sched_st, sched_iter>>
vars_scaffold == <<sc_cfg, sc_big, sc_cands, sc_best, sc_x, sc_dec, sc_layouts>>
vars_opt == <<opt_in, opt_once, opt_twice>>
vars_emit == <<gate, out>>
vars == <<n, fb, fbn, bs, bsn, x, dec, raw_inputs, const_names_per_col, sched, sched_env, sched_st, sched_iter,
          sc_cfg, sc_big, sc_cands, sc_best, sc_x, sc_dec, sc_layouts, opt_in, opt_once, opt_twice, gate, out>>

---------------------------------------------------------------------------
\* Bounds of the model.
MaxN == 15          \* widths 0..MaxN are requested
MaxRaw == 5         \* scheduler: at most MaxRaw raw inputs
MaxCol == 2         \* scheduler: constants injected at columns 0..MaxCol
MaxPerCol == 2      \* scheduler: at most MaxPerCol constants per column
OptMaxOps == 2      \* optimizer: FANs of at most OptMaxOps adders
MaxEmit == 2        \* emitter: a gate is emitted at most MaxEmit times
MaxLayoutN == 3     \* layouts: n in 0..MaxLayoutN real inputs
MaxLayoutFix == 2   \* layouts: num_fix in 1..MaxLayoutFix constant pairs

---------------------------------------------------------------------------
\* Signals and small helpers.
Lit0 == "1'b0"
Lit1 == "1'b1"
NoneSig == "None"       \* Python's None
NotRun == [status |-> "not_run"]

XName(i) == "x[" \o ToString(i) \o "]"
KName(j) == "K" \o ToString(j)

\* d[key] = v on a dict
DictSet(d, key, v) == [e \in (DOMAIN d) \cup {key} |-> IF e = key THEN v ELSE d[e]]
\* d.get(key, default)
DictGet(d, key, default) == IF key \in DOMAIN d THEN d[key] ELSE default
EmptyDict == [e \in {} |-> 0]

MinOf(S) == CHOOSE m \in S : \A o \in S : m <= o
MaxOf(S) == CHOOSE m \in S : \A o \in S : o <= m
Max2(a, b) == IF a >= b THEN a ELSE b
SeqToSet(q) == {q[i] : i \in 1..Len(q)}

\* (v >> j) & 1
Bit(v, j) == (v \div (2^j)) % 2

\* math.ceil(math.log2(v)) for an integer v >= 1
RECURSIVE CeilLog2From(_, _)
CeilLog2From(v, w) == IF 2^w >= v THEN w ELSE CeilLog2From(v, w + 1)
\* v.bit_length() in place of ceil(log2(v))
CeilLog2BitLength(v) == CeilLog2From(v + 1, 0)
CeilLog2(v) == CeilLog2From(v, 0)

\* [j for j in range(hi) if ((v >> j) & 1) == 1]
SetBits(v, hi) == SelectSeq([j1 \in 1..hi |-> j1 - 1], LAMBDA j : Bit(v, j) = 1)

\* [(a, b, cin, s, k) for (_, _, a, b, cin, s, k) in ops]
Strip(ops) == [i \in 1..Len(ops) |-> <<ops[i][3], ops[i][4], ops[i][5], ops[i][6], ops[i][7]>>]

---------------------------------------------------------------------------
\* _fa_max_levels
get_level(levels, sig) ==
    IF sig \in {Lit0, Lit1, NoneSig} THEN 0 ELSE DictGet(levels, sig, 0)

\* the for loop on the frame f = [i, levels, max_level], i the position of
\* the loop in fa_ops
RECURSIVE fa_levels_loop(_, _)
fa_levels_loop(fa_ops, f) ==
    IF f.i > Len(fa_ops) THEN f.max_level
    ELSE LET op == fa_ops[f.i]
             curr == Max2(Max2(get_level(f.levels, op[1]), get_level(f.levels, op[2])),
                          get_level(f.levels, op[3])) + 1
         IN fa_levels_loop(fa_ops,
                [i |-> f.i + 1,
                 levels |-> DictSet(DictSet(f.levels, op[4], curr), op[5], curr),
                 max_level |-> IF curr > f.max_level THEN curr ELSE f.max_level])

_fa_max_levels(fa_ops) ==
    IF fa_ops = <<>> THEN 0
    ELSE fa_levels_loop(fa_ops, [i |-> 1, levels |-> EmptyDict, max_level |-> 0])

---------------------------------------------------------------------------
\* csa_macro_schedule_all_columns.  st is the frame of one call: fa_id, ops,
\* wires, raw, col0_sums, col_bits, const_decl, residual_by_col, cnpc (the
\* argument const_names_per_col), pending_cols, current.

\* s = f"{tag}s_c{col}_{fa_id}", k = f"{tag}c_c{col}_{fa_id}"
WireName(tag, sk, col, fa_id) == tag \o sk \o "_c" \o ToString(col) \o "_" \o ToString(fa_id)

\* new_wires numbering the names from 1 instead of 0
new_wires_id_from_one(col, tag, st) ==
    [s  |-> WireName(tag, "s", col, st.fa_id + 1),
     k  |-> WireName(tag, "c", col, st.fa_id + 1),
     st |-> [st EXCEPT !.fa_id = @ + 1,
                       !.wires = Append(@, <<WireName(tag, "s", col, st.fa_id + 1),
                                             WireName(tag, "c", col, st.fa_id + 1)>>)]]

new_wires(col, tag, st) ==
    [s  |-> WireName(tag, "s", col, st.fa_id),
     k  |-> WireName(tag, "c", col, st.fa_id),
     st |-> [st EXCEPT !.fa_id = @ + 1,
                       !.wires = Append(@, <<WireName(tag, "s", col, st.fa_id),
                                             WireName(tag, "c", col, st.fa_id)>>)]]

\* Stage A: raw triples at column 0
RECURSIVE stage_a(_)
stage_a(st) ==
    IF Len(st.raw) >= 3
    THEN LET nw == new_wires(0, "raw_", st)
         IN stage_a([nw.st EXCEPT
                !.raw = SubSeq(@, 4, Len(@)),
                !.ops = Append(@, <<0, "raw_triple", st.raw[1], st.raw[2], st.raw[3], nw.s, nw.k>>),
                !.col0_sums = Append(@, nw.s),
                !.col_bits = [@ EXCEPT ![1] = Append(@, nw.k)]])
    ELSE st

\* fold_column, the `while len(queue) >= 2` loop on the frame t = [queue,
\* acc, carries_out, st]
RECURSIVE fold_triples(_, _)
fold_triples(col, t) ==
    IF Len(t.queue) >= 2
    THEN LET nw == new_wires(col, "", t.st)
         IN fold_triples(col,
                [queue |-> SubSeq(t.queue, 3, Len(t.queue)),
                 acc |-> nw.s,
                 carries_out |-> Append(t.carries_out, nw.k),
                 st |-> [nw.st EXCEPT !.ops = Append(@, <<col, "triple", t.acc, t.queue[1], t.queue[2], nw.s, nw.k>>)]])
    ELSE t

\* fold_pair with the pair adder's carry-in tied to 1 instead of 0
fold_pair_carry_in_one(col, t) ==
    IF Len(t.queue) = 1
    THEN LET nw == new_wires(col, "p_", t.st)
         IN [acc |-> nw.s,
             carries_out |-> Append(t.carries_out, nw.k),
             st |-> [nw.st EXCEPT !.ops = Append(@, <<col, "pair", t.acc, t.queue[1], Lit1, nw.s, nw.k>>)]]
    ELSE [acc |-> t.acc, carries_out |-> t.carries_out, st |-> t.st]

\* fold_column, `if len(queue) == 1` and the return; t is the frame the
\* while loop left
fold_pair(col, t) ==
    IF Len(t.queue) = 1
    THEN LET nw == new_wires(col, "p_", t.st)
         IN [acc |-> nw.s,
             carries_out |-> Append(t.carries_out, nw.k),
             st |-> [nw.st EXCEPT !.ops = Append(@, <<col, "pair", t.acc, t.queue[1], Lit0, nw.s, nw.k>>)]]
    ELSE [acc |-> t.acc, carries_out |-> t.carries_out, st |-> t.st]

fold_column(col, queue, st) ==
    IF queue = <<>>
    THEN [acc |-> NoneSig, carries_out |-> <<>>, st |-> st]
    ELSE fold_pair(col, fold_triples(col,
            [queue |-> Tail(queue), acc |-> Head(queue), carries_out |-> <<>>, st |-> st]))

\* Stage B: the column-0 queue with the constants of column 0, folded
sched_stage_b(sa) ==
    fold_column(0, sa.col0_sums \o sa.raw \o DictGet(sa.cnpc, 0, <<>>),
                [sa EXCEPT !.const_decl = DictGet(sa.cnpc, 0, <<>>)])

\* sched_after_col0 that forgets to queue the carries of the column-0 fold
sched_after_col0_drop_carries(f) ==
    [f.st EXCEPT
        !.residual_by_col = IF f.acc # NoneSig THEN DictSet(@, 0, f.acc) ELSE @,
        !.pending_cols = (DOMAIN f.st.col_bits) \cup (DOMAIN f.st.cnpc)]

\* after the fold of column 0: its residual, its carries, pending_cols
sched_after_col0(f) ==
    [f.st EXCEPT
        !.residual_by_col = IF f.acc # NoneSig THEN DictSet(@, 0, f.acc) ELSE @,
        !.col_bits = DictSet(@, 1, DictGet(@, 1, <<>>) \o f.carries_out),
        !.pending_cols = (DOMAIN f.st.col_bits) \cup (DOMAIN f.st.cnpc)]

\* a loop that never finds a candidate column
sched_candidates_none(st) == {}

\* `candidates` of the while-True loop
sched_candidates(st) ==
    {c \in st.pending_cols :
        /\ c >= st.current
        /\ \/ (c \in DOMAIN st.col_bits /\ Len(st.col_bits[c]) > 0)
           \/ (c \in DOMAIN st.cnpc /\ Len(st.cnpc[c]) > 0)}

\* col_bits after column j is folded: carries queued at j+1, column j emptied
col_bits_after(col_bits, j, carries) ==
    LET queued == IF carries # <<>>
                  THEN DictSet(col_bits, j + 1, DictGet(col_bits, j + 1, <<>>) \o carries)
                  ELSE col_bits
    IN IF j \in DOMAIN queued THEN DictSet(queued, j, <<>>) ELSE queued

\* the loop body after fold_column returned f for column j
sched_after_fold(j, f) ==
    [f.st EXCEPT
        !.residual_by_col = IF f.acc # NoneSig THEN DictSet(@, j, f.acc) ELSE @,
        !.col_bits = col_bits_after(@, j, f.carries_out),
        !.pending_cols = IF f.carries_out # <<>> THEN @ \cup {j + 1} ELSE @,
        !.cnpc = IF j \in DOMAIN @ THEN DictSet(@, j, <<>>) ELSE @,
        !.current = j + 1]

\* sched_fold_next without the injection of the column's constants
sched_fold_next_no_consts(st, j) ==
    sched_after_fold(j, fold_column(j, DictGet(st.col_bits, j, <<>>), st))

\* one iteration of the while-True loop, folding column j
sched_fold_next(st, j) ==
    sched_after_fold(j,
        fold_column(j, DictGet(st.col_bits, j, <<>>) \o DictGet(st.cnpc, j, <<>>),
                    [st EXCEPT !.const_decl = @ \o DictGet(st.cnpc, j, <<>>)]))

\* the while-True loop, which ends with the values the call hands back
RECURSIVE sched_loop(_)
sched_loop(st) ==
    IF sched_candidates(st) = {}
    THEN [ops |-> st.ops, wires |-> st.wires, residual_by_col |-> st.residual_by_col,
          const_decl |-> st.const_decl, const_names_per_col |-> st.cnpc]
    ELSE sched_loop(sched_fold_next(st, MinOf(sched_candidates(st))))

csa_macro_schedule_all_columns(raw, cnpc) ==
    sched_loop(sched_after_col0(sched_stage_b(stage_a(
        [fa_id |-> 0, ops |-> <<>>, wires |-> <<>>, raw |-> raw,
         col0_sums |-> <<>>, col_bits |-> (1 :> <<>>), const_decl |-> <<>>,
         residual_by_col |-> EmptyDict, cnpc |-> cnpc,
         pending_cols |-> {}, current |-> 1]))))

---------------------------------------------------------------------------
\* Folded-bias parameters: th = (n + 1) // 2, w = ceil(log2(th)),
\* K = (1 << w) - th
bias_params(nn) ==
    LET th == (nn + 1) \div 2
        w  == CeilLog2(th)
    IN [th |-> th, w |-> w, K |-> 2^w - th]

\* [f"K{j}" for j in range(w) if ((K >> j) & 1) == 1]
bias_const1_names(P) == [i \in 1..Len(SetBits(P.K, P.w)) |-> KName(SetBits(P.K, P.w)[i])]

\* consts[j] = ["K<j>"] for the set bits j < w of K
bias_consts(P) == [j \in {c \in 0..(P.w - 1) : Bit(P.K, c) = 1} |-> <<KName(j)>>]

\* bias_maj_cout taking the sum output of the last op of column w-1
bias_maj_cout_sum(P, ops) ==
    LET at == {i \in 1..Len(ops) : ops[i][1] = P.w - 1}
    IN IF P.w = 0 \/ at = {} THEN Lit0 ELSE ops[MaxOf(at)][6]

\* maj_cout of emit_folded_bias: the k of the last op of column w-1
bias_maj_cout(P, ops) ==
    LET at == {i \in 1..Len(ops) : ops[i][1] = P.w - 1}
    IN IF P.w = 0 \/ at = {} THEN Lit0 ELSE ops[MaxOf(at)][7]

\* emit_folded_bias after the scheduler returned r
emit_folded_bias_return(nn, P, r) ==
    [status |-> "ok",
     fa_count |-> Len(r.ops),
     ops |-> r.ops,
     const1_names |-> bias_const1_names(P),
     maj_signal |-> bias_maj_cout(P, r.ops),
     const_decl |-> r.const_decl,
     residual_by_col |-> r.residual_by_col,
     stats |-> [n |-> nn, threshold |-> P.th, w_bits |-> P.w, bias_K |-> P.K,
                K_bits_set |-> SetBits(P.K, P.w), fa_count |-> Len(r.ops),
                fa_levels |-> _fa_max_levels(Strip(r.ops)),
                maj_signal |-> bias_maj_cout(P, r.ops)]]

\* emit_folded_bias: the folded-bias design through the shared scheduler
emit_folded_bias(nn) ==
    IF ~(nn % 2 = 1 /\ nn >= 3) THEN [status |-> "AssertionError"]
    ELSE emit_folded_bias_return(nn, bias_params(nn),
            csa_macro_schedule_all_columns([i \in 1..nn |-> XName(i - 1)],
                                           bias_consts(bias_params(nn))))

---------------------------------------------------------------------------
\* build_folded_bias_netlist: the same design with its own copy of the
\* column folding, which stops at column w-1 and remembers the last carry
\* created there.  Frame: fa_id, fa_ops, last_cout_wm1, raw, col0_sums,
\* col_bits, w, K.

\* fbn_new_wires remembering the carry of column w instead of column w-1
fbn_new_wires_col_w(col, tag, st) ==
    [s  |-> WireName(tag, "s", col, st.fa_id),
     k  |-> WireName(tag, "c", col, st.fa_id),
     st |-> [st EXCEPT !.fa_id = @ + 1,
                       !.last_cout_wm1 = IF col = st.w
                                         THEN WireName(tag, "c", col, st.fa_id) ELSE @]]

fbn_new_wires(col, tag, st) ==
    [s  |-> WireName(tag, "s", col, st.fa_id),
     k  |-> WireName(tag, "c", col, st.fa_id),
     st |-> [st EXCEPT !.fa_id = @ + 1,
                       !.last_cout_wm1 = IF col = st.w - 1
                                         THEN WireName(tag, "c", col, st.fa_id) ELSE @]]

RECURSIVE fbn_stage_a(_)
fbn_stage_a(st) ==
    IF Len(st.raw) >= 3
    THEN LET nw == fbn_new_wires(0, "raw_", st)
         IN fbn_stage_a([nw.st EXCEPT
                !.raw = SubSeq(@, 4, Len(@)),
                !.fa_ops = Append(@, <<st.raw[1], st.raw[2], st.raw[3], nw.s, nw.k>>),
                !.col0_sums = Append(@, nw.s),
                !.col_bits = [@ EXCEPT ![1] = Append(@, nw.k)]])
    ELSE st

RECURSIVE fbn_fold_triples(_, _)
fbn_fold_triples(col, t) ==
    IF Len(t.queue) >= 2
    THEN LET nw == fbn_new_wires(col, "", t.st)
         IN fbn_fold_triples(col,
                [queue |-> SubSeq(t.queue, 3, Len(t.queue)),
                 acc |-> nw.s,
                 carries_out |-> Append(t.carries_out, nw.k),
                 st |-> [nw.st EXCEPT !.fa_ops = Append(@, <<t.acc, t.queue[1], t.queue[2], nw.s, nw.k>>)]])
    ELSE t

fbn_fold_pair(col, t) ==
    IF Len(t.queue) = 1
    THEN LET nw == fbn_new_wires(col, "p_", t.st)
         IN [acc |-> nw.s,
             carries_out |-> Append(t.carries_out, nw.k),
             st |-> [nw.st EXCEPT !.fa_ops = Append(@, <<t.acc, t.queue[1], Lit0, nw.s, nw.k>>)]]
    ELSE [acc |-> t.acc, carries_out |-> t.carries_out, st |-> t.st]

fbn_fold_column(col, queue, st) ==
    IF queue = <<>>
    THEN [acc |-> NoneSig, carries_out |-> <<>>, st |-> st]
    ELSE fbn_fold_pair(col, fbn_fold_triples(col,
            [queue |-> Tail(queue), acc |-> Head(queue), carries_out |-> <<>>, st |-> st]))

\* the queue of column j: its carries, then K<j> when bit j of K is set
fbn_queue(st, j) ==
    DictGet(st.col_bits, j, <<>>) \o (IF Bit(st.K, j) = 1 THEN <<KName(j)>> ELSE <<>>)

\* fold of column 0 (+K0 if set) after stage A left the frame sa
fbn_col0(sa) ==
    fbn_fold_column(0, sa.col0_sums \o sa.raw \o (IF Bit(sa.K, 0) = 1 THEN <<"K0">> ELSE <<>>), sa)

\* the carries of column 0 queued at column 1
fbn_after_col0(f) ==
    [f.st EXCEPT !.col_bits = DictSet(@, 1, DictGet(@, 1, <<>>) \o f.carries_out)]

\* after the fold of a middle column j: the fold drained the deque of
\* column j, the carries are queued at column j+1
fbn_after_fold(j, f) ==
    [f.st EXCEPT !.col_bits = col_bits_after(@, j, f.carries_out)]

\* `for j in range(1, max(1, w - 1))`: columns j..hi-1, serial fold
RECURSIVE fbn_middle_columns(_, _, _)
fbn_middle_columns(st, j, hi) ==
    IF j >= hi THEN st
    ELSE fbn_middle_columns(fbn_after_fold(j, fbn_fold_column(j, fbn_queue(st, j), st)), j + 1, hi)

\* the last fold, of column w-1
fbn_last_column(st) ==
    IF st.w # 0 /\ Len(fbn_queue(st, st.w - 1)) >= 1
    THEN fbn_fold_column(st.w - 1, fbn_queue(st, st.w - 1), st).st
    ELSE st

build_folded_bias_netlist_return(P, st) ==
    [status |-> "ok", fa_ops |-> st.fa_ops, const1_names |-> bias_const1_names(P),
     maj_signal |-> IF P.w = 0 THEN Lit0
                    ELSE IF st.last_cout_wm1 # NoneSig THEN st.last_cout_wm1 ELSE Lit0]

build_folded_bias_netlist(nn) ==
    IF ~(nn % 2 = 1 /\ nn >= 3) THEN [status |-> "AssertionError"]
    ELSE build_folded_bias_netlist_return(bias_params(nn),
            fbn_last_column(
                fbn_middle_columns(
                    fbn_after_col0(fbn_col0(fbn_stage_a(
                        [fa_id |-> 0, fa_ops |-> <<>>, last_cout_wm1 |-> NoneSig,
                         raw |-> [i \in 1..nn |-> XName(i - 1)],
                         col0_sums |-> <<>>, col_bits |-> (1 :> <<>>),
                         w |-> bias_params(nn).w, K |-> bias_params(nn).K]))),
                    1, Max2(1, bias_params(nn).w - 1))))

---------------------------------------------------------------------------
\* Baseline threshold design: CSA over the padded scaffold, then the m-bit
\* ripple comparator.

\* p, N, m, th_N, k, n_big, num_fix of the strict baseline
strict_params(nn) ==
    LET p == CeilLog2(nn + 1)
        N == 2^p - 1
    IN [p |-> p, N |-> N, m |-> p, th_N |-> (N + 1) \div 2, k |-> (nn - 1) \div 2,
        n_big |-> (N - 1) \div 2, num_fix |-> ((N - 1) \div 2) - ((nn - 1) \div 2)]

\* hw_inputs padded with zeros only
hw_inputs_zeros_only(nn, num_fix) ==
    [i \in 1..nn |-> XName(i - 1)] \o [i \in 1..(2 * num_fix) |-> Lit0]

\* hw_inputs: the n real inputs, then num_fix ones, then num_fix zeros
hw_inputs_of(nn, num_fix) ==
    [i \in 1..nn |-> XName(i - 1)] \o [i \in 1..num_fix |-> Lit1] \o [i \in 1..num_fix |-> Lit0]

\* const1_names = ["c2_0"] + [T<j> for the set bits of th_N - 1]
baseline_const1_names(th_N, m) ==
    <<"c2_0">> \o [i \in 1..Len(SetBits(th_N - 1, m)) |-> "T" \o ToString(SetBits(th_N - 1, m)[i])]

\* the comparator adders left out of the FAN
comparator_ops_none(th_N, m, a_of) == <<>>

\* the comparator adders appended after the CSA adders; a_of[i] names the
\* count bit fed to adder i
comparator_ops(th_N, m, a_of) ==
    [i1 \in 1..m |->
        <<a_of[i1 - 1],
          IF Bit(th_N - 1, i1 - 1) = 1 THEN "T" \o ToString(i1 - 1) ELSE Lit0,
          "c2_" \o ToString(i1 - 1),
          "s2_" \o ToString(i1 - 1),
          "c2_" \o ToString(i1)>>]

\* hw_bits = [residual_by_col.get(i, "1'b0") for i in range(m)]
hw_bits_of(residual_by_col, m) == [i \in 0..(m - 1) |-> DictGet(residual_by_col, i, Lit0)]

\* emit_baseline_strict after the scheduler returned r; the comparator
\* adders of its FAN read the wires hw_<i>
emit_baseline_strict_return(nn, P, r) ==
    [status |-> "ok",
     total_fas |-> Len(r.ops) + P.m,
     fa_ops |-> Strip(r.ops) \o comparator_ops(P.th_N, P.m, [i \in 0..(P.m - 1) |-> "hw_" \o ToString(i)]),
     const1_names |-> baseline_const1_names(P.th_N, P.m),
     maj_signal |-> "c2_" \o ToString(P.m),
     hw_bits |-> hw_bits_of(r.residual_by_col, P.m),
     stats |-> [n |-> nn, threshold |-> (nn + 1) \div 2, scaffold_p |-> P.p,
                scaffold_inputs |-> P.N, scaffold_threshold |-> P.th_N,
                comparator_width |-> P.m, num_fixed_pairs |-> P.num_fix,
                cin_init |-> 1, csa_fa_count |-> Len(r.ops),
                comparator_fa_count |-> P.m, total_fa_count |-> Len(r.ops) + P.m,
                csa_levels |-> _fa_max_levels(Strip(r.ops)),
                total_levels |-> _fa_max_levels(Strip(r.ops)) + P.m,
                maj_signal |-> "c2_" \o ToString(P.m)]]

emit_baseline_strict(nn) ==
    IF ~(nn % 2 = 1 /\ nn >= 3) THEN [status |-> "AssertionError"]
    ELSE IF strict_params(nn).num_fix < 0 THEN [status |-> "AssertionError"]
    ELSE emit_baseline_strict_return(nn, strict_params(nn),
            csa_macro_schedule_all_columns(hw_inputs_of(nn, strict_params(nn).num_fix), EmptyDict))

build_baseline_strict_netlist_return(P, r) ==
    [status |-> "ok",
     fa_ops |-> Strip(r.ops) \o comparator_ops(P.th_N, P.m, hw_bits_of(r.residual_by_col, P.m)),
     const1_names |-> baseline_const1_names(P.th_N, P.m),
     maj_signal |-> "c2_" \o ToString(P.m)]

\* build_baseline_strict_netlist without its assertion on n
build_baseline_strict_netlist_unchecked(nn) ==
    build_baseline_strict_netlist_return(strict_params(nn),
        csa_macro_schedule_all_columns(hw_inputs_of(nn, strict_params(nn).num_fix), EmptyDict))

build_baseline_strict_netlist(nn) ==
    IF ~(nn % 2 = 1 /\ nn >= 3) THEN [status |-> "AssertionError"]
    ELSE IF strict_params(nn).num_fix < 0 THEN [status |-> "AssertionError"]
    ELSE build_baseline_strict_netlist_return(strict_params(nn),
            csa_macro_schedule_all_columns(hw_inputs_of(nn, strict_params(nn).num_fix), EmptyDict))

---------------------------------------------------------------------------
\* Value of a FAN: every adder computes sum = parity, carry = majority.
Ones(env, op) == env[op[1]] + env[op[2]] + env[op[3]]

\* the values of all signals after the adders from position f.i on are
\* evaluated in list order, f = [i, env]
RECURSIVE EvalFrom(_, _)
EvalFrom(fa_ops, f) ==
    IF f.i > Len(fa_ops) THEN f.env
    ELSE EvalFrom(fa_ops,
            [i |-> f.i + 1,
             env |-> DictSet(DictSet(f.env, fa_ops[f.i][4], Ones(f.env, fa_ops[f.i]) % 2),
                             fa_ops[f.i][5], IF Ones(f.env, fa_ops[f.i]) >= 2 THEN 1 ELSE 0)])

\* bit values of the primary inputs xv, the named constants (1) and the literals
InputEnv(xv, const1) ==
    [sig \in (DOMAIN xv) \cup const1 \cup {Lit0, Lit1} |->
        IF sig = Lit0 THEN 0
        ELSE IF sig = Lit1 THEN 1
        ELSE IF sig \in const1 THEN 1
        ELSE xv[sig]]

Decide(fa_ops, maj_signal, const1_names, xv) ==
    EvalFrom(fa_ops, [i |-> 1, env |-> InputEnv(xv, SeqToSet(const1_names))])[maj_signal]

XNames(nn) == {XName(i) : i \in 0..(nn - 1)}
Popcount(xv) == Cardinality({sig \in DOMAIN xv : xv[sig] = 1})

---------------------------------------------------------------------------
\* Optimizer: constant folding, then dead-code elimination.
_is_const(sig) == sig \in {Lit0, Lit1}

\* resolve(sig) of _constant_fold_and_prune
RECURSIVE resolve(_, _)
resolve(const_map, sig) ==
    IF sig \in DOMAIN const_map THEN resolve(const_map, const_map[sig]) ELSE sig

\* the `for ... in reversed(fa_ops)` loop of _prune_fa_netlist; i runs from
\* len(fa_ops) down to 1
RECURSIVE prune_loop(_, _, _, _)
prune_loop(fa_ops, i, needed, pruned_rev) ==
    IF i < 1 THEN pruned_rev
    ELSE IF fa_ops[i][4] \in needed \/ fa_ops[i][5] \in needed
         THEN prune_loop(fa_ops, i - 1,
                         needed \cup {sig \in {fa_ops[i][1], fa_ops[i][2], fa_ops[i][3]} : ~_is_const(sig)},
                         Append(pruned_rev, fa_ops[i]))
         ELSE prune_loop(fa_ops, i - 1, needed, pruned_rev)

\* list(reversed(q))
Reversed(q) == [i \in 1..Len(q) |-> q[Len(q) + 1 - i]]

\* _prune_fa_netlist that discards nothing
prune_fa_netlist_keep_all(fa_ops, maj_signal) == fa_ops

_prune_fa_netlist(fa_ops, maj_signal) ==
    Reversed(prune_loop(fa_ops, Len(fa_ops), {maj_signal}, <<>>))

\* (a == "1'b1") + (b == "1'b1") + (cin == "1'b1")
CountOnes(op) ==
    (IF op[1] = Lit1 THEN 1 ELSE 0) + (IF op[2] = Lit1 THEN 1 ELSE 0) + (IF op[3] = Lit1 THEN 1 ELSE 0)

\* fold_operands that checks the operands as written, unresolved
fold_operands_unresolved(const_map, op) == op

\* a = resolve(a); b = resolve(b); cin = resolve(cin)
fold_operands(const_map, op) ==
    <<resolve(const_map, op[1]), resolve(const_map, op[2]), resolve(const_map, op[3]), op[4], op[5]>>

\* fold_step recording the parity of the operands for the carry as well
fold_step_carry_parity(f, op) ==
    IF _is_const(op[1]) /\ _is_const(op[2]) /\ _is_const(op[3])
    THEN [i |-> f.i + 1,
          const_map |-> DictSet(DictSet(f.const_map, op[4], IF CountOnes(op) % 2 = 1 THEN Lit1 ELSE Lit0),
                                op[5], IF CountOnes(op) % 2 = 1 THEN Lit1 ELSE Lit0),
          processed |-> f.processed]
    ELSE [i |-> f.i + 1, const_map |-> f.const_map, processed |-> Append(f.processed, op)]

\* body of the first loop of _constant_fold_and_prune, op with its operands
\* resolved; f is the frame [i, const_map, processed], i the position of
\* the loop in fa_ops
fold_step(f, op) ==
    IF _is_const(op[1]) /\ _is_const(op[2]) /\ _is_const(op[3])
    THEN [i |-> f.i + 1,
          const_map |-> DictSet(DictSet(f.const_map, op[4], IF CountOnes(op) % 2 = 1 THEN Lit1 ELSE Lit0),
                                op[5], IF CountOnes(op) >= 2 THEN Lit1 ELSE Lit0),
          processed |-> f.processed]
    ELSE [i |-> f.i + 1, const_map |-> f.const_map, processed |-> Append(f.processed, op)]

RECURSIVE fold_loop(_, _)
fold_loop(fa_ops, f) ==
    IF f.i > Len(fa_ops) THEN f
    ELSE fold_loop(fa_ops, fold_step(f, fold_operands(f.const_map, fa_ops[f.i])))

\* the second loop: every name of every processed op resolved
folded_ops(f) ==
    [i \in 1..Len(f.processed) |->
        <<resolve(f.const_map, f.processed[i][1]), resolve(f.const_map, f.processed[i][2]),
          resolve(f.const_map, f.processed[i][3]), resolve(f.const_map, f.processed[i][4]),
          resolve(f.const_map, f.processed[i][5])>>]

\* _constant_fold_and_prune after the first loop left the frame f
fold_return(f, maj_signal) ==
    [fa_ops |-> _prune_fa_netlist(folded_ops(f), resolve(f.const_map, maj_signal)),
     maj_signal |-> resolve(f.const_map, maj_signal)]

_constant_fold_and_prune(fa_ops, maj_signal) ==
    fold_return(fold_loop(fa_ops, [i |-> 1, const_map |-> EmptyDict, processed |-> <<>>]), maj_signal)

\* the constant names of the designs, in the order sorted() puts them
ConstNameOrder == <<"K0", "K1", "K2", "K3", "T0", "T1", "T2", "T3", "c2_0">>

\* sorted(used), used = the candidates that are the decision signal or a
\* name of an op
_collect_const_names(fa_ops, maj_signal, candidates) ==
    SelectSeq(ConstNameOrder,
              LAMBDA nm : /\ nm \in SeqToSet(candidates)
                          /\ \/ nm = maj_signal
                             \/ \E i \in 1..Len(fa_ops) : nm \in SeqToSet(fa_ops[i]))

---------------------------------------------------------------------------
\* Scaffold search.  A token is <<kind, idx>> with kind "x", "1" or "0"; a
\* layout is <<label, sequence of tokens>>.

XTokens(nn) == [i \in 1..nn |-> <<"x", i - 1>>]

\* frame of a layout builder: seq, the counters idx["x"] (x_idx), idx["1"]
\* (ones_idx) and idx["0"] (zeros_idx), toggle
LayoutStart == [seq |-> <<>>, idx |-> [kind \in {"x", "1", "0"} |-> 0], toggle |-> 0]

\* seq.append((kind, <counter of kind>)); <counter of kind> += 1
push(f, kind) == [f EXCEPT !.seq = Append(@, <<kind, f.idx[kind]>>), !.idx[kind] = @ + 1]

\* `if <counter of kind> < limit:` push
push_if_left(f, kind, limit) == IF f.idx[kind] < limit THEN push(f, kind) ELSE f

\* `if <counter of kind> < limit and len(seq) < N_big:` push
push_if_room(f, kind, limit, N_big) ==
    IF f.idx[kind] < limit /\ Len(f.seq) < N_big THEN push(f, kind) ELSE f

\* `while <counter of kind> < limit and len(seq) < N_big:` push
RECURSIVE drain(_, _, _, _)
drain(f, kind, limit, N_big) ==
    IF f.idx[kind] < limit /\ Len(f.seq) < N_big THEN drain(push(f, kind), kind, limit, N_big) ELSE f

\* layout_clustered appending the '1' token twice instead of a '1' and a '0'
layout_clustered_ones_twice(nn, num_fix) ==
    XTokens(nn) \o [i \in 1..(2 * num_fix) |-> <<"1", (i - 1) \div 2>>]

layout_clustered(nn, num_fix) ==
    XTokens(nn) \o [i \in 1..(2 * num_fix) |->
                        IF i % 2 = 1 THEN <<"1", (i - 1) \div 2>> ELSE <<"0", (i - 1) \div 2>>]

\* `for i in range(n)`: the x token, then a one and a zero if any is left
RECURSIVE interleaved_for(_, _, _)
interleaved_for(nn, num_fix, f) ==
    IF f.idx["x"] >= nn THEN f
    ELSE interleaved_for(nn, num_fix,
            push_if_left(push_if_left(push(f, "x"), "1", num_fix), "0", num_fix))

RECURSIVE interleaved_while(_, _)
interleaved_while(num_fix, f) ==
    IF f.idx["1"] < num_fix \/ f.idx["0"] < num_fix
    THEN interleaved_while(num_fix, push_if_left(push_if_left(f, "1", num_fix), "0", num_fix))
    ELSE f

layout_interleaved(nn, num_fix) ==
    interleaved_while(num_fix, interleaved_for(nn, num_fix, LayoutStart)).seq

RECURSIVE alternating_while(_, _, _, _)
alternating_while(nn, num_fix, N_big, f) ==
    IF Len(f.seq) < N_big
    THEN alternating_while(nn, num_fix, N_big,
            push_if_room(
                push_if_room(
                    push_if_room(push_if_left(f, "x", nn), "1", num_fix, N_big),
                    "x", nn, N_big),
                "0", num_fix, N_big))
    ELSE f

\* the while loop, then the three trailing while loops
layout_alternating(nn, num_fix, N_big) ==
    drain(drain(drain(alternating_while(nn, num_fix, N_big, LayoutStart), "x", nn, N_big),
                "1", num_fix, N_big),
          "0", num_fix, N_big).seq

\* the if / elif / elif / else of layout_alt_offset1, before `toggle += 1`
alt_offset1_append(nn, num_fix, f) ==
    IF f.toggle % 2 = 0 /\ f.idx["x"] < nn THEN push(f, "x")
    ELSE IF f.toggle % 4 = 1 /\ f.idx["1"] < num_fix THEN push(f, "1")
    ELSE IF f.toggle % 4 = 3 /\ f.idx["0"] < num_fix THEN push(f, "0")
    ELSE IF f.idx["x"] < nn THEN push(f, "x")
    ELSE IF f.idx["1"] < num_fix THEN push(f, "1")
    ELSE IF f.idx["0"] < num_fix THEN push(f, "0")
    ELSE f

RECURSIVE alt_offset1_while(_, _, _, _)
alt_offset1_while(nn, num_fix, N_big, f) ==
    IF Len(f.seq) < N_big
    THEN alt_offset1_while(nn, num_fix, N_big,
            [alt_offset1_append(nn, num_fix, f) EXCEPT !.toggle = @ + 1])
    ELSE f

\* seq[:N_big]
Truncate(seq, N_big) == SubSeq(seq, 1, IF Len(seq) < N_big THEN Len(seq) ELSE N_big)

layout_alt_offset1(nn, num_fix, N_big) ==
    Truncate(alt_offset1_while(nn, num_fix, N_big, LayoutStart).seq, N_big)

\* random.seed(seed); random.shuffle(seq) of CPython 3 on a list of 5, 7, 11
\* or 15 elements: ShuffleOrder[len][seed + 1][i] is the position in the
\* original list of the element that ends at position i (positions from 1)
ShuffleOrder ==
    5 :> << <<3, 2, 1, 5, 4>>, <<3, 4, 5, 1, 2>>, <<3, 2, 4, 5, 1>>, <<1, 3, 4, 5, 2>>,
            <<4, 5, 1, 3, 2>>, <<1, 2, 4, 3, 5>>, <<4, 3, 2, 1, 5>>, <<5, 1, 4, 2, 3>>,
            <<4, 1, 5, 3, 2>>, <<5, 1, 2, 3, 4>>, <<4, 3, 2, 1, 5>>, <<3, 1, 2, 5, 4>> >>
    @@
    7 :> << <<5, 3, 2, 1, 6, 4, 7>>, <<4, 7, 6, 3, 1, 5, 2>>, <<3, 4, 2, 5, 6, 1, 7>>,
            <<1, 3, 4, 7, 6, 5, 2>>, <<6, 5, 7, 4, 1, 3, 2>>, <<7, 4, 2, 1, 6, 3, 5>>,
            <<3, 6, 2, 4, 1, 5, 7>>, <<6, 7, 5, 1, 4, 2, 3>>, <<5, 6, 1, 7, 4, 3, 2>>,
            <<2, 7, 1, 6, 3, 5, 4>>, <<2, 6, 3, 7, 4, 1, 5>>, <<2, 1, 3, 6, 7, 5, 4>> >>
    @@
    11 :> << <<9, 10, 2, 3, 6, 4, 8, 5, 1, 11, 7>>, <<7, 9, 11, 8, 6, 4, 1, 5, 2, 10, 3>>,
             <<8, 11, 4, 5, 3, 9, 7, 6, 10, 2, 1>>, <<2, 6, 7, 1, 11, 5, 8, 3, 9, 10, 4>>,
             <<3, 6, 8, 10, 1, 9, 11, 7, 2, 5, 4>>, <<11, 3, 9, 8, 2, 4, 7, 1, 6, 5, 10>>,
             <<6, 9, 3, 4, 11, 7, 1, 5, 8, 2, 10>>, <<2, 11, 4, 10, 9, 5, 8, 1, 7, 3, 6>>,
             <<9, 8, 11, 5, 1, 10, 2, 3, 7, 6, 4>>, <<11, 9, 4, 3, 1, 7, 2, 5, 6, 10, 8>>,
             <<6, 3, 9, 4, 2, 11, 5, 8, 7, 1, 10>>, <<1, 4, 3, 6, 2, 7, 5, 10, 11, 9, 8>> >>
    @@
    15 :> << <<2, 11, 10, 6, 12, 3, 4, 8, 9, 5, 1, 15, 13, 7, 14>>,
             <<15, 11, 1, 14, 7, 6, 4, 9, 8, 12, 5, 2, 13, 10, 3>>,
             <<10, 4, 7, 13, 11, 8, 9, 5, 3, 6, 12, 2, 1, 15, 14>>,
             <<13, 11, 7, 12, 15, 1, 5, 2, 8, 14, 6, 3, 9, 10, 4>>,
             <<10, 14, 6, 9, 15, 11, 1, 13, 3, 8, 7, 12, 2, 5, 4>>,
             <<3, 4, 14, 13, 15, 2, 7, 8, 1, 9, 11, 6, 12, 5, 10>>,
             <<7, 9, 15, 12, 4, 11, 6, 3, 14, 1, 5, 8, 2, 10, 13>>,
             <<4, 13, 15, 8, 12, 5, 14, 10, 9, 2, 1, 11, 7, 3, 6>>,
             <<14, 10, 8, 11, 13, 5, 9, 12, 2, 1, 15, 3, 7, 6, 4>>,
             <<14, 15, 2, 9, 7, 4, 12, 13, 1, 11, 3, 5, 6, 10, 8>>,
             <<5, 6, 11, 2, 3, 9, 13, 12, 4, 14, 15, 8, 7, 1, 10>>,
             <<11, 6, 1, 2, 10, 5, 7, 3, 4, 13, 12, 15, 9, 14, 8>> >>

\* base = the x tokens, then the '1' tokens, then the '0' tokens
layout_base(nn, num_fix) ==
    XTokens(nn) \o [i \in 1..num_fix |-> <<"1", i - 1>>] \o [i \in 1..num_fix |-> <<"0", i - 1>>]

\* base[:] shuffled under random.seed(seed)
shuffled(base, seed) == [i \in 1..Len(base) |-> base[ShuffleOrder[Len(base)][seed + 1][i]]]

\* the twelve (f"rand{seed}", seq[:N_big]) layouts
random_layouts(nn, num_fix, N_big) ==
    [s1 \in 1..12 |-> <<"rand" \o ToString(s1 - 1), Truncate(shuffled(layout_base(nn, num_fix), s1 - 1), N_big)>>]

\* _scaffold_layout_sequences, rand being the twelve layouts its shuffles left
scaffold_layouts_given(nn, num_fix, N_big, rand) ==
    IF num_fix <= 0 THEN << <<"identity", XTokens(nn)>> >>
    ELSE << <<"clustered", Truncate(layout_clustered(nn, num_fix), N_big)>>,
            <<"interleaved", Truncate(layout_interleaved(nn, num_fix), N_big)>>,
            <<"alternating", Truncate(layout_alternating(nn, num_fix, N_big), N_big)>>,
            <<"alt_off1", Truncate(layout_alt_offset1(nn, num_fix, N_big), N_big)>> >>
         \o rand

_scaffold_layout_sequences(nn, num_fix, N_big) ==
    scaffold_layouts_given(nn, num_fix, N_big, random_layouts(nn, num_fix, N_big))

\* _tokens_to_mapping with the '0' tokens tied to 1
tokens_to_mapping_all_ones(sequence) ==
    [i \in 1..Len(sequence) |->
        IF sequence[i][1] = "x" THEN XName(sequence[i][2]) ELSE Lit1]

_tokens_to_mapping(sequence) ==
    [i \in 1..Len(sequence) |->
        IF sequence[i][1] = "x" THEN XName(sequence[i][2])
        ELSE IF sequence[i][1] = "1" THEN Lit1
        ELSE Lit0]

\* a signal named x[idx] with 0 <= idx < len(mapping) becomes mapping[idx]
_remap_signal(sig, mapping) ==
    IF \E idx \in 0..(Len(mapping) - 1) : sig = XName(idx)
    THEN mapping[(CHOOSE idx \in 0..(Len(mapping) - 1) : sig = XName(idx)) + 1]
    ELSE sig

_apply_mapping_to_netlist(fa_ops, maj_signal, mapping) ==
    [fa_ops |-> [i \in 1..Len(fa_ops) |->
                    <<_remap_signal(fa_ops[i][1], mapping), _remap_signal(fa_ops[i][2], mapping),
                      _remap_signal(fa_ops[i][3], mapping), fa_ops[i][4], fa_ops[i][5]>>],
     maj_signal |-> _remap_signal(maj_signal, mapping)]

\* _constant_fold_and_prune(mapped_ops, mapped_maj)
fold_mapped(mapped) == _constant_fold_and_prune(mapped.fa_ops, mapped.maj_signal)

\* the dict one iteration of _select_scaffold_layout offers as `best`
candidate_entry(idx, label, mapping, const1_names, opt) ==
    [score |-> <<Len(opt.fa_ops), idx>>,
     label |-> label,
     mapping |-> mapping,
     fa_ops |-> opt.fa_ops,
     maj_signal |-> opt.maj_signal,
     const1_names |-> _collect_const_names(opt.fa_ops, opt.maj_signal, const1_names)]

\* what the iterations of _select_scaffold_layout compute, one entry per layout
scaffold_candidates(fa_ops, maj_signal, const1_names, layouts) ==
    [i \in 1..Len(layouts) |->
        candidate_entry(i - 1, layouts[i][1], _tokens_to_mapping(layouts[i][2]), const1_names,
            fold_mapped(_apply_mapping_to_netlist(fa_ops, maj_signal, _tokens_to_mapping(layouts[i][2]))))]

NoBest == [label |-> "None"]

\* improves with ties going to the later candidate
improves_on_tie(score, best) ==
    best = NoBest \/ score[1] <= best.score[1]

\* `best is None or score < best['score']`, scores compared as tuples
improves(score, best) ==
    best = NoBest \/ score[1] < best.score[1]
                  \/ (score[1] = best.score[1] /\ score[2] < best.score[2])

\* the for loop on the frame f = [i, best], cands[i] the entry iteration i
\* computed
RECURSIVE select_loop(_, _)
select_loop(cands, f) ==
    IF f.i > Len(cands) THEN f.best
    ELSE select_loop(cands,
            [i |-> f.i + 1,
             best |-> IF improves(cands[f.i].score, f.best) THEN cands[f.i] ELSE f.best])

_select_scaffold_layout(nn, fa_ops, maj_signal, const1_names, num_fix, N_big) ==
    select_loop(scaffold_candidates(fa_ops, maj_signal, const1_names,
                                    _scaffold_layout_sequences(nn, num_fix, N_big)),
                [i |-> 1, best |-> NoBest])

---------------------------------------------------------------------------
\* Canonical two-level emitter.  A truth-table row f"{a}{b}{c}" is the tuple
\* <<a, b, c>>; a mask is a tuple of three booleans.  Positions count from 1.

\* the names the emitter is given here, in the order Python compares strings
EmitNameOrder == <<"CONST0", "c_c0_0", "fa0_op1", "x0", "x1">>
NameRank(nm) == CHOOSE r \in 1..Len(EmitNameOrder) : EmitNameOrder[r] = nm

\* perm = tuple(lst.index(srt[i]) for i in range(3)); index() is the first match
sorted3_perm(lst, srt) ==
    [srt |-> srt, perm |-> [i \in 1..3 |-> MinOf({j \in 1..3 : lst[j] = srt[i]})]]

_sorted3(a, b, c) ==
    sorted3_perm(<<a, b, c>>, SortSeq(<<a, b, c>>, LAMBDA p, q : NameRank(p) < NameRank(q)))

_permute_pattern(p, perm) ==
    IF Len(p) # 3 THEN p ELSE [i \in 1..3 |-> p[perm[i]]]

\* the eight rows in the order of the three nested loops, which is ascending
AllRows ==
    <<<<0, 0, 0>>, <<0, 0, 1>>, <<0, 1, 0>>, <<0, 1, 1>>,
      <<1, 0, 0>>, <<1, 0, 1>>, <<1, 1, 0>>, <<1, 1, 1>>>>

\* a ^ mask bit
XorMask(bit, neg) == IF neg THEN 1 - bit ELSE bit

\* sorted(set(rows))
sorted_set(rows) == SelectSeq(AllRows, LAMBDA r : r \in SeqToSet(rows))

\* emit_maj3 after _sorted3 returned s: the `.names` line and its rows,
\* mask_sorted[i] = mask[s.perm[i]]
maj3_lines(OUT, mask, s) ==
    [names |-> s.srt,
     out |-> OUT,
     rows |-> sorted_set(SelectSeq(AllRows,
                LAMBDA r : XorMask(r[1], mask[s.perm[1]]) + XorMask(r[2], mask[s.perm[2]])
                           + XorMask(r[3], mask[s.perm[3]]) >= 2))]

emit_maj3(A, B, C, OUT, mask) == maj3_lines(OUT, mask, _sorted3(A, B, C))

\* rows = ["001","010","100","111"]
OddRows == <<<<0, 0, 1>>, <<0, 1, 0>>, <<1, 0, 0>>, <<1, 1, 1>>>>

\* emit_xor3 after _sorted3 returned s
xor3_lines(S, s) ==
    [names |-> s.srt, out |-> S, rows |-> [i \in 1..4 |-> _permute_pattern(OddRows[i], s.perm)]]

emit_xor3(A, B, C, S) == xor3_lines(S, _sorted3(A, B, C))

---------------------------------------------------------------------------
\* The variables of a part that is not running.
SynthIdle ==
    /\ fb = NotRun /\ fbn = NotRun /\ bs = NotRun /\ bsn = NotRun
    /\ x = EmptyDict /\ dec = NotRun

SchedIdle ==
    /\ raw_inputs = <<>> /\ const_names_per_col = EmptyDict
    /\ sched = NotRun /\ sched_env = EmptyDict /\ sched_st = NotRun /\ sched_iter = 0

ScaffoldIdle ==
    /\ sc_cfg = NotRun /\ sc_big = NotRun /\ sc_cands = <<>> /\ sc_best = NotRun
    /\ sc_x = EmptyDict /\ sc_dec = <<>> /\ sc_layouts = <<>>

OptIdle == opt_in = NotRun /\ opt_once = NotRun /\ opt_twice = NotRun

EmitIdle == gate = NotRun /\ out = <<>>

---------------------------------------------------------------------------
\* Spec: one run of the generator for a width n.  The four synthesis entry
\* points are independent calls; the FANs they return are then evaluated on
\* one input assignment.
Init ==
    /\ n \in 0..MaxN
    /\ SynthIdle
    /\ SchedIdle /\ ScaffoldIdle /\ OptIdle /\ EmitIdle

EmitFoldedBias ==
    /\ fb = NotRun
    /\ fb' = emit_folded_bias(n)
    /\ UNCHANGED <<n, fbn, bs, bsn, x, dec, vars_sched, vars_scaffold, vars_opt, vars_emit>>

BuildFoldedBiasNetlist ==
    /\ fbn = NotRun
    /\ fbn' = build_folded_bias_netlist(n)
    /\ UNCHANGED <<n, fb, bs, bsn, x, dec, vars_sched, vars_scaffold, vars_opt, vars_emit>>

EmitBaselineStrict ==
    /\ bs = NotRun
    /\ bs' = emit_baseline_strict(n)
    /\ UNCHANGED <<n, fb, fbn, bsn, x, dec, vars_sched, vars_scaffold, vars_opt, vars_emit>>

BuildBaselineStrictNetlist ==
    /\ bsn = NotRun
    /\ bsn' = build_baseline_strict_netlist(n)
    /\ UNCHANGED <<n, fb, fbn, bs, x, dec, vars_sched, vars_scaffold, vars_opt, vars_emit>>

Evaluate ==
    /\ dec = NotRun
    /\ fb.status = "ok" /\ fbn.status = "ok" /\ bs.status = "ok" /\ bsn.status = "ok"
    /\ \E xv \in [XNames(n) -> {0, 1}] :
        /\ x' = xv
        /\ dec' = [status |-> "ok",
                   fb  |-> Decide(Strip(fb.ops), fb.maj_signal, fb.const1_names, xv),
                   fbn |-> Decide(fbn.fa_ops, fbn.maj_signal, fbn.const1_names, xv),
                   bsn |-> Decide(bsn.fa_ops, bsn.maj_signal, bsn.const1_names, xv)]
    /\ UNCHANGED <<n, fb, fbn, bs, bsn, vars_sched, vars_scaffold, vars_opt, vars_emit>>

Next ==
    \/ EmitFoldedBias
    \/ BuildFoldedBiasNetlist
    \/ EmitBaselineStrict
    \/ BuildBaselineStrictNetlist
    \/ Evaluate

Spec == Init /\ [][Next]_vars

---------------------------------------------------------------------------
\* SpecSched: one call of csa_macro_schedule_all_columns on a list of raw
\* inputs and a per-column constant map, followed by an evaluation of the
\* adders it returned on one assignment of bit values.
SchedConstName(col, i) == IF i = 1 THEN KName(col) ELSE KName(col) \o "_" \o ToString(i)

SchedConstMaps ==
    UNION {[cols -> {[i \in 1..c |-> i] : c \in 0..MaxPerCol}] : cols \in SUBSET (0..MaxCol)}

InitSched ==
    /\ n = 0
    /\ SynthIdle /\ ScaffoldIdle /\ OptIdle /\ EmitIdle
    /\ raw_inputs \in {[i \in 1..len |-> XName(i - 1)] : len \in 0..MaxRaw}
    /\ \E shape \in SchedConstMaps :
        const_names_per_col =
            [col \in DOMAIN shape |-> [i \in 1..Len(shape[col]) |-> SchedConstName(col, i)]]
    /\ sched = NotRun
    /\ sched_env = EmptyDict
    /\ sched_st = NotRun /\ sched_iter = 0

\* what the call returned, with the arguments it was given
ScheduleResult(raw, cnpc, r) ==
    [status |-> "ok", ops |-> r.ops, wires |-> r.wires,
     residual_by_col |-> r.residual_by_col, const_decl |-> r.const_decl,
     const_names_per_col |-> r.const_names_per_col,
     arg_raw_inputs |-> raw,
     arg_const_names_per_col |-> cnpc]

Schedule ==
    /\ sched = NotRun
    /\ sched' = ScheduleResult(raw_inputs, const_names_per_col,
                               csa_macro_schedule_all_columns(raw_inputs, const_names_per_col))
    /\ const_names_per_col' = sched'.const_names_per_col
    /\ UNCHANGED <<raw_inputs, sched_env, sched_st, sched_iter, vars_synth, vars_scaffold, vars_opt, vars_emit>>

\* the signals a call is given: raw inputs and injected constants
SchedGiven(raw, cnpc) ==
    SeqToSet(raw) \cup UNION {SeqToSet(cnpc[col]) : col \in DOMAIN cnpc}

EvaluateSched ==
    /\ sched.status = "ok"
    /\ sched_env = EmptyDict
    /\ \E val \in [SchedGiven(sched.arg_raw_inputs, sched.arg_const_names_per_col) -> {0, 1}] :
        sched_env' = EvalFrom(Strip(sched.ops), [i |-> 1, env |-> InputEnv(val, {})])
    /\ UNCHANGED <<raw_inputs, const_names_per_col, sched, sched_st, sched_iter, vars_synth, vars_scaffold, vars_opt, vars_emit>>

NextSched ==
    \/ Schedule
    \/ EvaluateSched

SpecSched == InitSched /\ [][NextSched]_vars

---------------------------------------------------------------------------
\* SpecSchedSteps: one call of csa_macro_schedule_all_columns, taken one
\* iteration of its `while True` loop at a time.  sched_st holds the frame of
\* the call between two iterations.
InitSchedSteps ==
    /\ n = 0
    /\ SynthIdle /\ ScaffoldIdle /\ OptIdle /\ EmitIdle
    /\ raw_inputs \in {[i \in 1..len |-> XName(i - 1)] : len \in 0..MaxRaw}
    /\ \E shape \in SchedConstMaps :
        const_names_per_col =
            [col \in DOMAIN shape |-> [i \in 1..Len(shape[col]) |-> SchedConstName(col, i)]]
    /\ sched = NotRun
    /\ sched_env = EmptyDict
    /\ sched_st = NotRun /\ sched_iter = 0

\* the call up to the loop: stage A, stage B, the fold of column 0
SchedEnter ==
    /\ sched_st = NotRun
    /\ sched_st' = [status |-> "loop",
                    st |-> sched_after_col0(sched_stage_b(stage_a(
                            [fa_id |-> 0, ops |-> <<>>, wires |-> <<>>, raw |-> raw_inputs,
                             col0_sums |-> <<>>, col_bits |-> (1 :> <<>>), const_decl |-> <<>>,
                             residual_by_col |-> EmptyDict, cnpc |-> const_names_per_col,
                             pending_cols |-> {}, current |-> 1])))]
    /\ sched_iter' = sched_iter + 1
    /\ UNCHANGED <<raw_inputs, const_names_per_col, sched, sched_env, vars_synth, vars_scaffold, vars_opt, vars_emit>>

\* one iteration that folds column min(candidates)
SchedLoopStep ==
    /\ sched_st.status = "loop"
    /\ sched_candidates(sched_st.st) # {}
    /\ sched_st' = [sched_st EXCEPT !.st = sched_fold_next(@, MinOf(sched_candidates(@)))]
    /\ const_names_per_col' = sched_st'.st.cnpc
    /\ sched_iter' = sched_iter + 1
    /\ UNCHANGED <<raw_inputs, sched, sched_env, vars_synth, vars_scaffold, vars_opt, vars_emit>>

\* `if not candidates: break` and the return
SchedReturn ==
    /\ sched_st.status = "loop"
    /\ sched_candidates(sched_st.st) = {}
    /\ sched_st' = [sched_st EXCEPT !.status = "returned"]
    /\ sched' = ScheduleResult(raw_inputs, sched_st.st.cnpc,
                    [ops |-> sched_st.st.ops, wires |-> sched_st.st.wires,
                     residual_by_col |-> sched_st.st.residual_by_col,
                     const_decl |-> sched_st.st.const_decl,
                     const_names_per_col |-> sched_st.st.cnpc])
    /\ sched_iter' = sched_iter + 1
    /\ UNCHANGED <<raw_inputs, const_names_per_col, sched_env, vars_synth, vars_scaffold, vars_opt, vars_emit>>

NextSchedSteps ==
    \/ SchedEnter
    \/ SchedLoopStep
    \/ SchedReturn

\* a step of a call that has not returned: every action above is one
SchedAdvance == sched_st.status # "returned" /\ sched_iter' = sched_iter + 1

\* the interpreter keeps executing the call until it returns
SpecSchedSteps == InitSchedSteps /\ [][NextSchedSteps]_vars /\ WF_sched_iter(SchedAdvance)

---------------------------------------------------------------------------
\* SpecScaffold: one scaffold search.  The larger network of n + 2*num_fix
\* inputs is built by one of the two designs, _select_scaffold_layout is
\* run on it, and every candidate it computed is evaluated on one
\* assignment of the n real inputs.
ScaffoldConfigs ==
    {[n |-> c[1], num_fix |-> c[2], kind |-> kind] :
        c \in {<<3, 1>>, <<5, 1>>, <<9, 1>>, <<13, 1>>, <<3, 2>>, <<7, 2>>, <<11, 2>>}, kind \in {"fb", "bs"}}

InitScaffold ==
    /\ n = 0
    /\ SynthIdle /\ SchedIdle /\ OptIdle /\ EmitIdle
    /\ sc_cfg \in ScaffoldConfigs
    /\ sc_big = NotRun
    /\ sc_cands = <<>> /\ sc_best = NotRun
    /\ sc_x = EmptyDict /\ sc_dec = <<>> /\ sc_layouts = <<>>

\* build_folded_bias_netlist(N_scaffold) or build_baseline_strict_netlist(N_scaffold)
scaffold_big(cfg) ==
    IF cfg.kind = "fb" THEN build_folded_bias_netlist(cfg.n + 2 * cfg.num_fix)
    ELSE build_baseline_strict_netlist(cfg.n + 2 * cfg.num_fix)

SelectCandidates(cfg, big) ==
    scaffold_candidates(big.fa_ops, big.maj_signal, big.const1_names,
                        _scaffold_layout_sequences(cfg.n, cfg.num_fix, cfg.n + 2 * cfg.num_fix))

\* main(): the larger network is built first
BuildScaffold ==
    /\ sc_big = NotRun
    /\ sc_big' = scaffold_big(sc_cfg)
    /\ UNCHANGED <<sc_cfg, sc_cands, sc_best, sc_x, sc_dec, sc_layouts, vars_synth, vars_sched, vars_opt, vars_emit>>

SelectScaffoldLayout ==
    /\ sc_big # NotRun
    /\ sc_best = NotRun
    /\ sc_cands' = SelectCandidates(sc_cfg, sc_big)
    /\ sc_best' = _select_scaffold_layout(sc_cfg.n, sc_big.fa_ops, sc_big.maj_signal,
                                          sc_big.const1_names, sc_cfg.num_fix,
                                          sc_cfg.n + 2 * sc_cfg.num_fix)
    /\ UNCHANGED <<sc_cfg, sc_big, sc_x, sc_dec, sc_layouts, vars_synth, vars_sched, vars_opt, vars_emit>>

EvaluateScaffold ==
    /\ sc_best # NotRun
    /\ sc_dec = <<>>
    /\ \E xv \in [XNames(sc_cfg.n) -> {0, 1}] :
        /\ sc_x' = xv
        /\ sc_dec' = [i \in 1..Len(sc_cands) |->
                        Decide(sc_cands[i].fa_ops, sc_cands[i].maj_signal,
                               sc_cands[i].const1_names, xv)]
    /\ UNCHANGED <<sc_cfg, sc_big, sc_cands, sc_best, sc_layouts, vars_synth, vars_sched, vars_opt, vars_emit>>

NextScaffold ==
    \/ BuildScaffold
    \/ SelectScaffoldLayout
    \/ EvaluateScaffold

SpecScaffold == InitScaffold /\ [][NextScaffold]_vars

---------------------------------------------------------------------------
\* SpecScaffoldNeg: the scaffold search called with a negative pair count.
\* main() never does so (_scaffold_params yields num_fix = 1 and the call is
\* guarded by num_fix_pairs > 0); the arguments are those of a direct call,
\* with the network of n + 2*num_fix inputs as the FAN.
InitScaffoldNeg ==
    /\ n = 0
    /\ SynthIdle /\ SchedIdle /\ OptIdle /\ EmitIdle
    /\ sc_cfg \in {[n |-> c[1], num_fix |-> c[2], kind |-> kind] :
                        c \in {<<5, -1>>, <<7, -1>>, <<7, -2>>}, kind \in {"fb", "bs"}}
    /\ sc_big = NotRun
    /\ sc_cands = <<>> /\ sc_best = NotRun
    /\ sc_x = EmptyDict /\ sc_dec = <<>> /\ sc_layouts = <<>>

SpecScaffoldNeg == InitScaffoldNeg /\ [][NextScaffold]_vars

---------------------------------------------------------------------------

\* SpecLayout: one call of _scaffold_layout_sequences(n, num_fix, N_big) with
\* N_big = n + 2*num_fix.  What random.shuffle does under a seed is left
\* open: the shuffled list is base in an arbitrary order.
InitLayout ==
    /\ n = 0
    /\ SynthIdle /\ SchedIdle /\ OptIdle /\ EmitIdle
    /\ sc_cfg \in {[n |-> nn, num_fix |-> num_fix, kind |-> "layouts"] :
                        nn \in 0..MaxLayoutN, num_fix \in 1..MaxLayoutFix}
    /\ sc_big = NotRun
    /\ sc_cands = <<>> /\ sc_best = NotRun
    /\ sc_x = EmptyDict /\ sc_dec = <<>> /\ sc_layouts = <<>>

ScaffoldLayoutSequences ==
    /\ sc_layouts = <<>>
    /\ \E order \in Permutations(1..(sc_cfg.n + 2 * sc_cfg.num_fix)) :
        sc_layouts' = scaffold_layouts_given(sc_cfg.n, sc_cfg.num_fix, sc_cfg.n + 2 * sc_cfg.num_fix,
                        [s1 \in 1..12 |->
                            <<"rand" \o ToString(s1 - 1),
                              Truncate([i \in 1..(sc_cfg.n + 2 * sc_cfg.num_fix) |->
                                            layout_base(sc_cfg.n, sc_cfg.num_fix)[order[i]]],
                                       sc_cfg.n + 2 * sc_cfg.num_fix)>>])
    /\ UNCHANGED <<sc_cfg, sc_big, sc_cands, sc_best, sc_x, sc_dec, vars_synth, vars_sched, vars_opt, vars_emit>>

SpecLayout == InitLayout /\ [][ScaffoldLayoutSequences]_vars

---------------------------------------------------------------------------

\* SpecOpt: _constant_fold_and_prune applied to a FAN in dependency order,
\* then to its own result.  The FANs are all lists of at most OptMaxOps
\* adders whose operands are a literal, the primary input x[0] or an output
\* of an earlier adder, with any of these as the decision signal.
OptPool(i) ==
    {Lit0, Lit1, XName(0)}
        \cup {WireName("", "s", 0, j) : j \in 0..(i - 1)}
        \cup {WireName("", "c", 0, j) : j \in 0..(i - 1)}

OptOpsAt(i) ==
    {<<a, b, c, WireName("", "s", 0, i), WireName("", "c", 0, i)>> :
        a \in OptPool(i), b \in OptPool(i), c \in OptPool(i)}

RECURSIVE OptFansOfLen(_)
OptFansOfLen(len) ==
    IF len = 0 THEN {<<>>}
    ELSE {Append(f, op) : f \in OptFansOfLen(len - 1), op \in OptOpsAt(len - 1)}

OptFans ==
    UNION {{[fa_ops |-> f, maj_signal |-> m] : f \in OptFansOfLen(len), m \in OptPool(len)} :
                len \in 0..OptMaxOps}

InitOpt ==
    /\ n = 0
    /\ SynthIdle /\ SchedIdle /\ ScaffoldIdle /\ EmitIdle
    /\ opt_in \in OptFans
    /\ opt_once = NotRun /\ opt_twice = NotRun

Optimize ==
    /\ opt_once = NotRun
    /\ opt_once' = _constant_fold_and_prune(opt_in.fa_ops, opt_in.maj_signal)
    /\ UNCHANGED <<opt_in, opt_twice, vars_synth, vars_sched, vars_scaffold, vars_emit>>

OptimizeAgain ==
    /\ opt_once # NotRun
    /\ opt_twice = NotRun
    /\ opt_twice' = _constant_fold_and_prune(opt_once.fa_ops, opt_once.maj_signal)
    /\ UNCHANGED <<opt_in, opt_once, vars_synth, vars_sched, vars_scaffold, vars_emit>>

NextOpt ==
    \/ Optimize
    \/ OptimizeAgain

SpecOpt == InitOpt /\ [][NextOpt]_vars

---------------------------------------------------------------------------
\* SpecOptDangling: _constant_fold_and_prune applied to a one-adder FAN with
\* an operand "ghost" that no operation produces, that is no primary input
\* and no constant.
InitOptDangling ==
    /\ n = 0
    /\ SynthIdle /\ SchedIdle /\ ScaffoldIdle /\ EmitIdle
    /\ opt_in \in {[fa_ops |-> <<<<a, b, c, "s_c0_0", "c_c0_0">>>>, maj_signal |-> m] :
                        a \in {Lit0, Lit1, "x[0]", "ghost"}, b \in {Lit0, Lit1, "x[0]", "ghost"},
                        c \in {"ghost"}, m \in {"s_c0_0", "c_c0_0", "ghost"}}
    /\ opt_once = NotRun /\ opt_twice = NotRun

SpecOptDangling == InitOptDangling /\ [][NextOpt]_vars

---------------------------------------------------------------------------
\* SpecEmit: one 3-input gate, emitted up to MaxEmit times, each time with
\* its three operands (and their mask bits) supplied in some order.
EmitGates ==
    {[kind |-> "maj3", operands |-> ops] :
        ops \in [1..3 -> [name : SeqToSet(EmitNameOrder), neg : BOOLEAN]]}
    \cup
    {[kind |-> "xor3", operands |-> ops] :
        ops \in [1..3 -> [name : SeqToSet(EmitNameOrder), neg : {FALSE}]]}

\* the orders in which three operands can be supplied
SupplyOrders == {p \in [1..3 -> 1..3] : {p[1], p[2], p[3]} = {1, 2, 3}}

InitEmit ==
    /\ n = 0
    /\ SynthIdle /\ SchedIdle /\ ScaffoldIdle /\ OptIdle
    /\ gate \in EmitGates
    /\ out = <<>>

\* one entry of out: the supplied operands and mask, and the emitted lines
Emitted(supplied, lines) ==
    [supplied |-> supplied, names |-> lines.names, rows |-> lines.rows]

EmitMaj3 ==
    /\ gate.kind = "maj3"
    /\ Len(out) < MaxEmit
    /\ \E p \in SupplyOrders :
        out' = Append(out,
            Emitted([i \in 1..3 |-> gate.operands[p[i]]],
                    emit_maj3(gate.operands[p[1]].name, gate.operands[p[2]].name,
                              gate.operands[p[3]].name, "OUT",
                              [i \in 1..3 |-> gate.operands[p[i]].neg])))
    /\ UNCHANGED <<gate, vars_synth, vars_sched, vars_scaffold, vars_opt>>

EmitXor3 ==
    /\ gate.kind = "xor3"
    /\ Len(out) < MaxEmit
    /\ \E p \in SupplyOrders :
        out' = Append(out,
            Emitted([i \in 1..3 |-> gate.operands[p[i]]],
                    emit_xor3(gate.operands[p[1]].name, gate.operands[p[2]].name,
                              gate.operands[p[3]].name, "OUT")))
    /\ UNCHANGED <<gate, vars_synth, vars_sched, vars_scaffold, vars_opt>>

NextEmit ==
    \/ EmitMaj3
    \/ EmitXor3

SpecEmit == InitEmit /\ [][NextEmit]_vars

---------------------------------------------------------------------------
\* SpecLower: the canonical emitter lowers one adder (a, b, cin, s_c0_0,
\* c_c0_0), in the majority-only or in the mixed form; the operands may
\* repeat.

\* map_in / _sanitize on the operands used here
map_in(sig) ==
    CASE sig = Lit0 -> "CONST0"
      [] sig = Lit1 -> "CONST1"
      [] sig = "x[0]" -> "x0"
      [] sig = "x[1]" -> "x1"
      [] OTHER -> sig

\* the body of `for i, (a, b, cin, s, k) in enumerate(fa_ops)` for i = 0:
\* the gates appended to out, in order
lower_fa(a, b, cin, s, k, maj_only) ==
    IF maj_only
    THEN <<emit_maj3(map_in(a), map_in(b), map_in(cin), k, <<FALSE, FALSE, FALSE>>),
           emit_maj3(map_in(a), map_in(b), map_in(cin), "fa0_op1", <<TRUE, FALSE, FALSE>>),
           emit_maj3("fa0_op1", map_in(a), k, s, <<FALSE, FALSE, TRUE>>)>>
    ELSE <<emit_xor3(map_in(a), map_in(b), map_in(cin), s),
           emit_maj3(map_in(a), map_in(b), map_in(cin), k, <<FALSE, FALSE, FALSE>>)>>

InitLower ==
    /\ n = 0
    /\ SynthIdle /\ SchedIdle /\ ScaffoldIdle /\ OptIdle
    /\ gate \in {[kind |-> "fa", a |-> a, b |-> b, cin |-> c, maj_only |-> m] :
                    a \in {Lit0, "x[0]", "x[1]"}, b \in {Lit0, "x[0]", "x[1]"},
                    c \in {Lit0, "x[0]", "x[1]"}, m \in BOOLEAN}
    /\ out = <<>>

LowerAdder ==
    /\ gate.kind = "fa"
    /\ out = <<>>
    /\ out' = lower_fa(gate.a, gate.b, gate.cin, "s_c0_0", "c_c0_0", gate.maj_only)
    /\ UNCHANGED <<gate, vars_synth, vars_sched, vars_scaffold, vars_opt>>

SpecLower == InitLower /\ [][LowerAdder]_vars

---------------------------------------------------------------------------
\* Properties.

Evaluated == dec.status = "ok"
\* 1 when at least ceil(n/2) inputs are 1
MajorityOf(xv, nn) == IF Popcount(xv) >= (nn + 1) \div 2 THEN 1 ELSE 0

\* C1: for n in {3,5,7,9,15} and every input assignment, the decision of the
\* bias-folded FAN (as returned by emit_folded_bias and by
\* build_folded_bias_netlist) is 1 exactly when popcount(x) >= ceil(n/2).
FoldedBiasIsMajority ==
    (Evaluated /\ n \in {3, 5, 7, 9, 15}) =>
        (dec.fb = MajorityOf(x, n) /\ dec.fbn = MajorityOf(x, n))

FoldedBiasAtThreshold ==
    Evaluated /\ n = 15 /\ Popcount(x) = 8 /\ dec.fb = 1 /\ dec.fbn = 1

\* C2: for n in {3,5,7,9,15} and every input assignment, the final carry-out
\* c2_m of the baseline threshold FAN is 1 exactly when
\* popcount(x) >= ceil(n/2).
BaselineIsMajority ==
    (Evaluated /\ n \in {3, 5, 7, 9, 15}) =>
        (bsn.maj_signal = "c2_" \o ToString(CeilLog2(n + 1)) /\ dec.bsn = MajorityOf(x, n))

BaselineBelowThreshold ==
    Evaluated /\ n = 9 /\ Popcount(x) = 4 /\ dec.bsn = 0 /\ bsn.maj_signal = "c2_4"

\* C3: for every odd n >= 3 up to MaxN and every input assignment, the
\* bias-folded decision equals the baseline decision.
VariantsAgree ==
    Evaluated => (dec.fb = dec.bsn /\ dec.fbn = dec.bsn)

VariantsAgreeOnEleven ==
    Evaluated /\ n = 11 /\ Popcount(x) = 6 /\ dec.fbn = 1 /\ dec.bsn = 1
        /\ Len(fbn.fa_ops) < Len(bsn.fa_ops)

RECURSIVE SumFn(_)
SumFn(f) ==
    IF DOMAIN f = {} THEN 0
    ELSE LET e == CHOOSE d \in DOMAIN f : TRUE
         IN f[e] + SumFn([d \in (DOMAIN f) \ {e} |-> f[d]])

SchedEvaluated == sched.status = "ok" /\ sched_env # EmptyDict

\* sum of the raw inputs (weight 1) and of the injected constants (weight 2^column)
SchedGivenSum ==
    SumFn([i \in 1..Len(sched.arg_raw_inputs) |-> sched_env[sched.arg_raw_inputs[i]]])
    + SumFn([col \in DOMAIN sched.arg_const_names_per_col |->
                (2^col) * SumFn([i \in 1..Len(sched.arg_const_names_per_col[col]) |->
                                    sched_env[sched.arg_const_names_per_col[col][i]]])])

\* sum over the columns of 2^j times the residual bit of column j
SchedResidualSum ==
    SumFn([j \in DOMAIN sched.residual_by_col |-> (2^j) * sched_env[sched.residual_by_col[j]]])

\* C4: after the scheduler returns, every column has at most one residual
\* signal, and for every assignment of bit values the weighted sum of the
\* inputs and injected constants equals the weighted sum of the residuals.
SchedulerConserves ==
    SchedEvaluated =>
        /\ \A j \in DOMAIN sched.residual_by_col :
                /\ j \in Nat
                /\ sched.residual_by_col[j] \in DOMAIN sched_env
        /\ SchedGivenSum = SchedResidualSum

SchedulerConservesCarry ==
    /\ SchedEvaluated
    /\ Len(sched.arg_raw_inputs) = 5
    /\ 2 \in DOMAIN sched.arg_const_names_per_col
    /\ Len(sched.arg_const_names_per_col[2]) = 2
    /\ SchedGivenSum = 13
    /\ 3 \in DOMAIN sched.residual_by_col
    /\ sched_env[sched.residual_by_col[3]] = 1

ScaffoldSelected == sc_best # NotRun
ScaffoldEvaluated == sc_dec # <<>>

\* C5: for n embedded into the larger network of n + 2*num_fix inputs, every
\* candidate layout the scaffold search generates (four heuristics and twelve
\* shuffles), after remapping, constant folding and pruning, decides 1
\* exactly when popcount(x[0..n-1]) >= ceil(n/2), for every input assignment.
ScaffoldCandidatesAreMajority ==
    ScaffoldEvaluated =>
        /\ Len(sc_dec) = 16
        /\ \A i \in 1..Len(sc_dec) : sc_dec[i] = MajorityOf(sc_x, sc_cfg.n)

ScaffoldElevenIntoFifteen ==
    /\ ScaffoldEvaluated
    /\ sc_cfg = [n |-> 11, num_fix |-> 2, kind |-> "fb"]
    /\ Len(sc_cands[1].mapping) = 15
    /\ Len(sc_cands[1].fa_ops) = 10 /\ Len(sc_cands[2].fa_ops) = 11
    /\ Popcount(sc_x) = 6
    /\ \A i \in 1..16 : sc_dec[i] = 1

\* the smallest operation count among the candidates
MinCount == MinOf({Len(sc_cands[i].fa_ops) : i \in 1..Len(sc_cands)})
\* the position of the first candidate with that count
FirstMin == MinOf({i \in 1..Len(sc_cands) : Len(sc_cands[i].fa_ops) = MinCount})

\* C6: _select_scaffold_layout returns the candidate whose optimized FAN has
\* the smallest operation count; among several with that count, the one
\* generated first.
SelectsFirstMinimum ==
    ScaffoldSelected =>
        /\ Len(sc_best.fa_ops) = MinCount
        /\ sc_best = sc_cands[FirstMin]
        /\ sc_best.score = <<MinCount, FirstMin - 1>>

\* the thirteenth candidate is the only one with eight operations
SelectsLaterMinimum ==
    /\ ScaffoldSelected
    /\ sc_cfg = [n |-> 7, num_fix |-> 2, kind |-> "fb"]
    /\ Len(sc_cands[1].fa_ops) = 9
    /\ sc_best.label = "rand8" /\ sc_best.score = <<8, 12>>
    /\ sc_best.fa_ops = sc_cands[13].fa_ops

\* C7: for every FAN in dependency order, _constant_fold_and_prune applied to
\* its own result returns the same operation list and the same decision
\* signal as applying it once.
OptimizerIdempotent ==
    (opt_twice # NotRun) =>
        /\ opt_twice.fa_ops = opt_once.fa_ops
        /\ opt_twice.maj_signal = opt_once.maj_signal

OptimizerFoldedAndPruned ==
    /\ opt_twice # NotRun
    /\ opt_in.fa_ops = <<<<Lit1, Lit1, Lit0, "s_c0_0", "c_c0_0">>,
                         <<"s_c0_0", "x[0]", "c_c0_0", "s_c0_1", "c_c0_1">>>>
    /\ opt_in.maj_signal = "c_c0_1"
    /\ opt_once.fa_ops = <<<<Lit0, "x[0]", Lit1, "s_c0_1", "c_c0_1">>>>
    /\ opt_twice = opt_once

\* the number a row stands for
RowValue(r) == 4 * r[1] + 2 * r[2] + r[3]
RowsAscending(rows) == \A i \in 1..(Len(rows) - 1) : RowValue(rows[i]) < RowValue(rows[i + 1])

\* C8 as stated: for every 3-input gate (majority with any mask, odd parity)
\* the emitted operand list and the emitted sequence of rows are the same for
\* every order in which the same three operands, each with its mask bit, are
\* supplied, and the rows are in ascending order without duplicates.
EmitterOrderIndependent ==
    \A i \in 1..Len(out) :
        /\ RowsAscending(out[i].rows)
        /\ \A j \in 1..Len(out) :
            out[i].names = out[j].names /\ out[i].rows = out[j].rows

\* C9 as stated: for n = 3, threshold = 2, w = 1, K = 1 and one full adder.
BoundaryThreeBiasOne ==
    (n = 3 /\ fb.status = "ok" /\ fbn.status = "ok") =>
        /\ fb.stats.threshold = 2 /\ fb.stats.w_bits = 1 /\ fb.stats.bias_K = 1
        /\ Len(fb.ops) = 1 /\ fb.fa_count = 1 /\ Len(fbn.fa_ops) = 1

\* C9 (amended): for n = 3 the bias-folding synthesizer derives threshold = 2,
\* w = 1 and K = 0, and its FAN contains exactly one full adder.
BoundaryThree ==
    (n = 3 /\ fb.status = "ok" /\ fbn.status = "ok") =>
        /\ fb.stats.threshold = 2 /\ fb.stats.w_bits = 1 /\ fb.stats.bias_K = 0
        /\ Len(fb.ops) = 1 /\ fb.fa_count = 1 /\ Len(fbn.fa_ops) = 1

BoundaryThreeBuilt ==
    n = 3 /\ fb.status = "ok" /\ fbn.status = "ok" /\ fb.maj_signal = "raw_c_c0_0"

\* operands of the adders the scheduler placed at column j
OperandsAtColumn(ops, j) ==
    UNION {{ops[i][3], ops[i][4], ops[i][5]} : i \in {o \in 1..Len(ops) : ops[o][1] = j}}

\* C10: for every odd n >= 3 the synthesizer reports threshold = ceil(n/2),
\* w = the least integer with 2^w > threshold - 1 and K = 2^w - threshold,
\* and injects a constant named K<j> at column j exactly for the bits j < w
\* that are set in K.
BiasParameters ==
    (fb.status = "ok" /\ fbn.status = "ok") =>
        LET th == fb.stats.threshold
            w  == fb.stats.w_bits
            K  == fb.stats.bias_K
            set_bits == {j \in 0..(w - 1) : (K \div (2^j)) % 2 = 1}
        IN /\ n % 2 = 1 /\ n >= 3
           /\ 2 * th \in {n, n + 1}
           /\ w \in Nat /\ 2^w > th - 1 /\ \A v \in 0..(w - 1) : ~(2^v > th - 1)
           /\ K = 2^w - th
           /\ SeqToSet(fb.stats.K_bits_set) = set_bits
           /\ SeqToSet(fb.const_decl) = {KName(j) : j \in set_bits}
           /\ Len(fb.const_decl) = Cardinality(set_bits)
           /\ SeqToSet(fb.const1_names) = {KName(j) : j \in set_bits}
           /\ fbn.const1_names = fb.const1_names
           /\ \A j \in 0..w :
                (KName(j) \in OperandsAtColumn(fb.ops, j)) <=> (j \in set_bits)
           /\ \A j \in 0..w : \A c \in 0..w :
                (c # j) => KName(j) \notin OperandsAtColumn(fb.ops, c)

BiasParametersNine ==
    /\ n = 9 /\ fb.status = "ok" /\ fbn.status = "ok"
    /\ fb.stats.threshold = 5 /\ fb.stats.w_bits = 3 /\ fb.stats.bias_K = 3
    /\ fb.const_decl = <<"K0", "K1">>

---------------------------------------------------------------------------
AllSynthesized == fb.status = "ok" /\ fbn.status = "ok" /\ bs.status = "ok" /\ bsn.status = "ok"

\* C11: for every odd n >= 3 up to MaxN, the total adder count of the
\* baseline threshold design (CSA adders plus the m comparator adders) is
\* strictly greater than the adder count of the bias-folded design.
BaselineCostsMore ==
    AllSynthesized =>
        /\ bs.total_fas = bs.stats.csa_fa_count + bs.stats.comparator_fa_count
        /\ bs.total_fas = Len(bs.fa_ops)
        /\ bs.total_fas > fb.fa_count
        /\ Len(bsn.fa_ops) > Len(fbn.fa_ops)

BaselineCostsMoreAtThirteen ==
    /\ AllSynthesized /\ n = 13
    /\ fb.fa_count = 11 /\ Len(fbn.fa_ops) = 11
    /\ bs.stats.csa_fa_count = 11 /\ bs.stats.comparator_fa_count = 4
    /\ bs.total_fas = 15 /\ Len(bsn.fa_ops) = 15

---------------------------------------------------------------------------
\* what a synthesis entry point leaves when its first statement, the
\* assertion on n, fails: no operation list, no constants, no decision signal
Rejected == [status |-> "AssertionError"]

\* C12: when n is even or n < 3, each synthesis entry point
\* (emit_folded_bias, build_folded_bias_netlist, emit_baseline_strict,
\* build_baseline_strict_netlist) fails with an error before the scheduler is
\* called and before any operation is created; it returns no FAN, and nothing
\* is left to evaluate.
InvalidWidthRejected ==
    (n % 2 = 0 \/ n < 3) =>
        /\ fb \in {NotRun, Rejected}
        /\ fbn \in {NotRun, Rejected}
        /\ bs \in {NotRun, Rejected}
        /\ bsn \in {NotRun, Rejected}
        /\ dec = NotRun

InvalidWidthRejectedFour ==
    n = 4 /\ fb = Rejected /\ fbn = Rejected /\ bs = Rejected /\ bsn = Rejected

---------------------------------------------------------------------------
\* C13 as stated: when the scaffold search is invoked with a negative
\* constant-pair count it fails with a fatal precondition error and returns
\* no layout.
NegativePairCountFails ==
    (ScaffoldSelected /\ sc_cfg.num_fix < 0) =>
        /\ "label" \notin DOMAIN sc_best \/ sc_best = NoBest
        /\ sc_cands = <<>>

---------------------------------------------------------------------------
\* C14 as stated: when a FAN contains an operand that no operation produces,
\* that is no primary input and no declared constant, the optimizer aborts
\* with a fatal error instead of returning a netlist.
DanglingOperandAborts ==
    (opt_once # NotRun
        /\ \E i \in 1..Len(opt_in.fa_ops) :
                "ghost" \in {opt_in.fa_ops[i][1], opt_in.fa_ops[i][2], opt_in.fa_ops[i][3]})
    => ("fa_ops" \notin DOMAIN opt_once /\ "maj_signal" \notin DOMAIN opt_once)

---------------------------------------------------------------------------
\* the FAN invariant: every operand is a primary input, a literal, a name of
\* the constant list or an output of an earlier operation, and the decision
\* signal is an output of an operation
FanWellFormed(fa_ops, const1_names, maj_signal, nn) ==
    /\ \A i \in 1..Len(fa_ops) : \A k \in 1..3 :
            fa_ops[i][k] \in XNames(nn) \cup {Lit0, Lit1} \cup SeqToSet(const1_names)
                              \cup {fa_ops[j][4] : j \in 1..(i - 1)}
                              \cup {fa_ops[j][5] : j \in 1..(i - 1)}
    /\ \E i \in 1..Len(fa_ops) : maj_signal \in {fa_ops[i][4], fa_ops[i][5]}

\* C15 as stated: in every FAN a synthesizer returns (emit_folded_bias,
\* build_folded_bias_netlist, emit_baseline_strict,
\* build_baseline_strict_netlist) each operand is a primary input, a literal,
\* a returned constant or an output of an earlier operation, and the decision
\* signal is produced by an operation of the list.
ReturnedFansWellFormed ==
    /\ fb.status = "ok" => FanWellFormed(Strip(fb.ops), fb.const1_names, fb.maj_signal, n)
    /\ fbn.status = "ok" => FanWellFormed(fbn.fa_ops, fbn.const1_names, fbn.maj_signal, n)
    /\ bs.status = "ok" => FanWellFormed(bs.fa_ops, bs.const1_names, bs.maj_signal, n)
    /\ bsn.status = "ok" => FanWellFormed(bsn.fa_ops, bsn.const1_names, bsn.maj_signal, n)

---------------------------------------------------------------------------
\* the number of slots of seq that hold the token tok
SlotsOf(seq, tok) == Cardinality({i \in 1..Len(seq) : seq[i] = tok})
\* the number of slots of a mapping that hold the signal sig
SlotsMapped(mapping, sig) == Cardinality({i \in 1..Len(mapping) : mapping[i] = sig})

\* C16: for num_fix >= 1 and N_big = n + 2*num_fix, every layout of
\* _scaffold_layout_sequences (clustered, interleaved, alternating, alt_off1
\* and the twelve shuffles, whatever the shuffle order) has exactly N_big
\* slots, holds every real input index 0..n-1 exactly once, and holds exactly
\* num_fix constant-1 slots and num_fix constant-0 slots; so does its mapping.
LayoutsArePaddedPermutations ==
    (sc_layouts # <<>>) =>
        /\ [i \in 1..Len(sc_layouts) |-> sc_layouts[i][1]] =
                <<"clustered", "interleaved", "alternating", "alt_off1">>
                    \o [s1 \in 1..12 |-> "rand" \o ToString(s1 - 1)]
        /\ \A i \in 1..Len(sc_layouts) :
            LET seq == sc_layouts[i][2]
                mapping == _tokens_to_mapping(seq)
            IN /\ Len(seq) = sc_cfg.n + 2 * sc_cfg.num_fix
               /\ \A j \in 0..(sc_cfg.n - 1) :
                    SlotsOf(seq, <<"x", j>>) = 1 /\ SlotsMapped(mapping, XName(j)) = 1
               /\ Cardinality({k \in 1..Len(seq) : seq[k][1] = "1"}) = sc_cfg.num_fix
               /\ Cardinality({k \in 1..Len(seq) : seq[k][1] = "0"}) = sc_cfg.num_fix
               /\ Len(mapping) = Len(seq)
               /\ SlotsMapped(mapping, Lit1) = sc_cfg.num_fix
               /\ SlotsMapped(mapping, Lit0) = sc_cfg.num_fix

LayoutsOfThreeAndTwo ==
    /\ sc_cfg = [n |-> 3, num_fix |-> 2, kind |-> "layouts"]
    /\ Len(sc_layouts) = 16
    /\ sc_layouts[3][2] = <<<<"x", 0>>, <<"1", 0>>, <<"x", 1>>, <<"0", 0>>, <<"x", 2>>, <<"1", 1>>, <<"0", 1>>>>
    /\ sc_layouts[5][2] = <<<<"0", 1>>, <<"x", 2>>, <<"1", 0>>, <<"x", 0>>, <<"0", 0>>, <<"1", 1>>, <<"x", 1>>>>

---------------------------------------------------------------------------
\* the number of adders on the longest operand-dependency chain of a FAN: an
\* operation depends on the earlier operations that produce its operands
ChainDepth(fa_ops) ==
    LET Producers(i) == {j \in 1..(i - 1) : \E k \in 1..3 :
                              fa_ops[i][k] \in {fa_ops[j][4], fa_ops[j][5]}}
        depth[i \in 1..Len(fa_ops)] == 1 + MaxOf({0} \cup {depth[j] : j \in Producers(i)})
    IN MaxOf({0} \cup {depth[i] : i \in 1..Len(fa_ops)})

\* C17 as stated: the depth statistic of each variant (fa_levels of
\* emit_folded_bias, total_levels of emit_baseline_strict) equals the maximum
\* number of adders on a dependency chain of the variant's full FAN, which for
\* the baseline includes the comparator adders (the list emit_baseline_strict
\* returns, or the list build_baseline_strict_netlist wires to the residuals).
DepthStatisticsExact ==
    /\ fb.status = "ok" => fb.stats.fa_levels = ChainDepth(Strip(fb.ops))
    /\ bs.status = "ok" /\ bsn.status = "ok"
          => bs.stats.total_levels \in {ChainDepth(bs.fa_ops), ChainDepth(bsn.fa_ops)}

---------------------------------------------------------------------------
\* the prefixes new_wires is called with
WireTags == {"", "raw_", "p_"}

\* the operations of a FAN whose carry is named as a carry of column col
CarriesOfColumn(fa_ops, col) ==
    {i \in 1..Len(fa_ops) : \E tag \in WireTags : \E id \in 0..(Len(fa_ops) - 1) :
        fa_ops[i][5] = WireName(tag, "c", col, id)}

\* maj is the carry of the last operation of column col, no sum output and
\* no carry of an operation of another column
LastCarryOfColumn(fa_ops, col, maj) ==
    LET at == CarriesOfColumn(fa_ops, col)
    IN /\ at # {}
       /\ maj = fa_ops[MaxOf(at)][5]
       /\ \A i \in 1..Len(fa_ops) : maj # fa_ops[i][4]
       /\ \A i \in (1..Len(fa_ops)) \ at : maj # fa_ops[i][5]

\* the decision signals of emit_folded_bias and build_folded_bias_netlist
\* are the carry of the last operation of column w-1
DecisionIsLastCarry ==
    /\ fb.status = "ok" =>
          /\ {i \in 1..Len(fb.ops) : fb.ops[i][1] = bias_params(n).w - 1}
                 = CarriesOfColumn(Strip(fb.ops), bias_params(n).w - 1)
          /\ LastCarryOfColumn(Strip(fb.ops), bias_params(n).w - 1, fb.maj_signal)
    /\ fbn.status = "ok" =>
          LastCarryOfColumn(fbn.fa_ops, bias_params(n).w - 1, fbn.maj_signal)

\* C18 as stated: for every odd n >= 3 the decision signal of the
\* bias-folding synthesizer is the carry of the last operation, in list
\* order, of column w-1, and it is never a sum output, a residual of a column
\* or a carry of another column.
DecisionNeverResidual ==
    /\ DecisionIsLastCarry
    /\ fb.status = "ok" =>
          \A j \in DOMAIN fb.residual_by_col : fb.residual_by_col[j] # fb.maj_signal

\* C18, amended: the decision signal is the carry of the last operation of
\* column w-1, never a sum output or a carry of another column and never the
\* residual of a column below w; the scheduler passes it through column w,
\* where it is the residual.
DecisionIsResidualOfColumnW ==
    /\ DecisionIsLastCarry
    /\ fb.status = "ok" =>
          /\ \A j \in DOMAIN fb.residual_by_col :
                j < bias_params(n).w => fb.residual_by_col[j] # fb.maj_signal
          /\ bias_params(n).w \in DOMAIN fb.residual_by_col
          /\ fb.residual_by_col[bias_params(n).w] = fb.maj_signal

DecisionOfNineIsCarryOfColumnTwo ==
    /\ n = 9 /\ fb.status = "ok" /\ fbn.status = "ok"
    /\ fb.maj_signal = "c_c2_8" /\ fbn.maj_signal = "c_c2_8"
    /\ fb.ops[9][1] = 2 /\ fb.ops[9][7] = "c_c2_8"
    /\ fb.residual_by_col[3] = "c_c2_8"

---------------------------------------------------------------------------
\* the positions, in list order, of the operations fold_column appended for
\* column j (the raw triples of stage A are not among them)
SchedFoldOpsAt(ops, j) ==
    SelectSeq([i \in 1..Len(ops) |-> i], LAMBDA i : ops[i][1] = j /\ ops[i][2] # "raw_triple")

\* the positions of all operations of column j
SchedOpsAt(ops, j) == SelectSeq([i \in 1..Len(ops) |-> i], LAMBDA i : ops[i][1] = j)

\* the queue fold_column is handed for column j in the call that returned r:
\* column 0 gets the sums of the raw triples, the raw inputs left over and
\* the constants of column 0; column j > 0 gets the carries of column j-1 in
\* the order they were created, then the constants of column j
SchedFoldQueue(r, j) ==
    IF j = 0
    THEN [k \in 1..(Len(r.arg_raw_inputs) \div 3) |-> r.ops[k][6]]
            \o SubSeq(r.arg_raw_inputs, 3 * (Len(r.arg_raw_inputs) \div 3) + 1, Len(r.arg_raw_inputs))
            \o DictGet(r.arg_const_names_per_col, 0, <<>>)
    ELSE [k \in 1..Len(SchedOpsAt(r.ops, j - 1)) |-> r.ops[SchedOpsAt(r.ops, j - 1)[k]][7]]
            \o DictGet(r.arg_const_names_per_col, j, <<>>)

\* the fold of a queue Q into the operations at positions F of r.ops
FoldedAsQueue(r, j, Q, F) ==
    /\ Len(Q) = 0 => F = <<>> /\ j \notin DOMAIN r.residual_by_col
    /\ Len(Q) = 1 => F = <<>> /\ j \in DOMAIN r.residual_by_col /\ r.residual_by_col[j] = Q[1]
    /\ Len(Q) >= 2 =>
          /\ Len(F) = Len(Q) \div 2
          /\ \A k \in 1..Len(F) :
                /\ r.ops[F[k]][3] = IF k = 1 THEN Q[1] ELSE r.ops[F[k - 1]][6]
                /\ r.ops[F[k]][4] = Q[2 * k]
                /\ IF 2 * k + 1 <= Len(Q)
                   THEN r.ops[F[k]][2] = "triple" /\ r.ops[F[k]][5] = Q[2 * k + 1]
                   ELSE /\ r.ops[F[k]][2] = "pair" /\ r.ops[F[k]][5] = Lit0
                        /\ k = Len(F) /\ Len(Q) % 2 = 0
          /\ j \in DOMAIN r.residual_by_col
          /\ r.residual_by_col[j] = r.ops[F[Len(F)]][6]

\* the highest column an operation or a constant of the call sits at
SchedTopColumn(r) ==
    MaxOf({0} \cup {r.ops[i][1] : i \in 1..Len(r.ops)} \cup DOMAIN r.arg_const_names_per_col)

\* C19: fold_column leaves a column of zero tokens without residual and
\* without operation, passes the single token of a one-token column through
\* as the residual without an operation, and folds a column of q >= 2 tokens
\* with floor(q/2) operations: three-token adders chained through the
\* accumulator, the last one a pair with carry-in 1'b0 exactly when q is even;
\* every carry is queued to the next column, in the order of creation.
FoldColumnAsSpecified ==
    sched.status = "ok" =>
        /\ \A i \in 1..Len(sched.ops) :
                sched.ops[i][2] = "raw_triple" <=> i <= Len(sched.arg_raw_inputs) \div 3
        /\ \A j \in 0..(SchedTopColumn(sched) + 2) :
                FoldedAsQueue(sched, j, SchedFoldQueue(sched, j), SchedFoldOpsAt(sched.ops, j))

\* five raw inputs and a constant at column 2: column 0 folds three tokens
\* with one triple, columns 1 and 2 fold two tokens with a pair, column 3
\* passes its single carry through, column 4 is empty
FoldColumnAllCases ==
    /\ sched.status = "ok"
    /\ Len(sched.arg_raw_inputs) = 5
    /\ sched.arg_const_names_per_col = (2 :> <<"K2">>)
    /\ Len(sched.ops) = 4
    /\ sched.ops[2] = <<0, "triple", "raw_s_c0_0", "x[3]", "x[4]", "s_c0_1", "c_c0_1">>
    /\ sched.ops[3] = <<1, "pair", "raw_c_c0_0", "c_c0_1", Lit0, "p_s_c1_2", "p_c_c1_2">>
    /\ sched.ops[4] = <<2, "pair", "p_c_c1_2", "K2", Lit0, "p_s_c2_3", "p_c_c2_3">>
    /\ sched.residual_by_col[3] = "p_c_c2_3"
    /\ 4 \notin DOMAIN sched.residual_by_col

---------------------------------------------------------------------------
---------------------------------------------------------------------------
\* what constant folding makes of each operation of a FAN in dependency
\* order: its operands with every reference to an output of an earlier
\* all-constant operation replaced by the parity (sum) or the
\* majority-of-three (carry) of that operation's operands, and whether the
\* three operands are then constant literals
FoldInfo(fa_ops) ==
    LET info[i \in 1..Len(fa_ops)] ==
            LET sub(sig) ==
                    LET from == {j \in 1..(i - 1) : info[j].const /\ sig \in {fa_ops[j][4], fa_ops[j][5]}}
                    IN IF from = {} THEN sig
                       ELSE IF sig = fa_ops[MaxOf(from)][5] THEN info[MaxOf(from)].majority
                       ELSE info[MaxOf(from)].parity
                opnd == <<sub(fa_ops[i][1]), sub(fa_ops[i][2]), sub(fa_ops[i][3])>>
                ones == Cardinality({p \in 1..3 : opnd[p] = Lit1})
            IN [opnd |-> opnd,
                const |-> \A p \in 1..3 : opnd[p] \in {Lit0, Lit1},
                parity |-> IF ones \in {1, 3} THEN Lit1 ELSE Lit0,
                majority |-> IF ones \in {2, 3} THEN Lit1 ELSE Lit0]
    IN info

\* a signal after the folding of the whole FAN
FoldedSignal(fa_ops, sig) ==
    LET from == {j \in 1..Len(fa_ops) :
                    FoldInfo(fa_ops)[j].const /\ sig \in {fa_ops[j][4], fa_ops[j][5]}}
    IN IF from = {} THEN sig
       ELSE IF sig = fa_ops[MaxOf(from)][5] THEN FoldInfo(fa_ops)[MaxOf(from)].majority
       ELSE FoldInfo(fa_ops)[MaxOf(from)].parity

\* C21: after _constant_fold_and_prune on a FAN in dependency order no
\* retained operation has three constant literals as operands; every
\* operation whose three resolved operands are constant literals is removed,
\* and each reference to its sum (its carry) in a later operand or in the
\* decision signal is replaced by the parity (the majority-of-three) of those
\* operands.
ConstantsFolded ==
    (opt_once # NotRun) =>
        /\ \A i \in 1..Len(opt_once.fa_ops) :
                \E p \in 1..3 : opt_once.fa_ops[i][p] \notin {Lit0, Lit1}
        /\ \A i \in 1..Len(opt_once.fa_ops) : \E j \in 1..Len(opt_in.fa_ops) :
                /\ ~FoldInfo(opt_in.fa_ops)[j].const
                /\ opt_once.fa_ops[i] = FoldInfo(opt_in.fa_ops)[j].opnd
                                          \o <<opt_in.fa_ops[j][4], opt_in.fa_ops[j][5]>>
        /\ opt_once.maj_signal = FoldedSignal(opt_in.fa_ops, opt_in.maj_signal)

\* the first adder adds 1, 1, 0: its sum becomes 1'b0 and its carry 1'b1 in
\* the second adder, which is retained
ConstantsFoldedIntoSecond ==
    /\ opt_once # NotRun
    /\ opt_in.fa_ops = <<<<Lit1, Lit1, Lit0, "s_c0_0", "c_c0_0">>,
                         <<"s_c0_0", "x[0]", "c_c0_0", "s_c0_1", "c_c0_1">>>>
    /\ opt_in.maj_signal = "s_c0_1"
    /\ opt_once.fa_ops = <<<<Lit0, "x[0]", Lit1, "s_c0_1", "c_c0_1">>>>
    /\ opt_once.maj_signal = "s_c0_1"

---------------------------------------------------------------------------
\* the list _constant_fold_and_prune hands to _prune_fa_netlist: the
\* operations that are not folded away, operands substituted
FoldedList(fa_ops) ==
    LET kept == SelectSeq([i \in 1..Len(fa_ops) |-> i], LAMBDA i : ~FoldInfo(fa_ops)[i].const)
    IN [p \in 1..Len(kept) |-> FoldInfo(fa_ops)[kept[p]].opnd \o <<fa_ops[kept[p]][4], fa_ops[kept[p]][5]>>]

\* needed[i]: an output of operation i is the decision signal or an operand
\* of a needed later operation
NeededOps(F, maj) ==
    LET needed[i \in 1..Len(F)] ==
            \/ maj \in {F[i][4], F[i][5]}
            \/ \E j \in (i + 1)..Len(F) :
                    needed[j] /\ \E p \in 1..3 : F[j][p] \in {F[i][4], F[i][5]}
    IN needed

\* C22: dead-code elimination on a FAN in dependency order retains an
\* operation exactly when one of its outputs is the decision signal or an
\* operand of a retained later operation, keeps the retained operations in
\* their order, and leaves every operand of a retained operation that an
\* operation of the list produced with a retained producer.
PruneKeepsNeeded ==
    (opt_once # NotRun) =>
        LET F == FoldedList(opt_in.fa_ops)
            needed == NeededOps(F, opt_once.maj_signal)
            kept == SelectSeq([i \in 1..Len(F) |-> i], LAMBDA i : needed[i])
        IN /\ opt_once.fa_ops = [p \in 1..Len(kept) |-> F[kept[p]]]
           /\ \A i \in 1..Len(opt_once.fa_ops) : \A p \in 1..3 :
                (\E j \in 1..Len(F) : opt_once.fa_ops[i][p] \in {F[j][4], F[j][5]})
                    => \E j \in 1..(i - 1) :
                            opt_once.fa_ops[i][p] \in {opt_once.fa_ops[j][4], opt_once.fa_ops[j][5]}

\* the first adder feeds nothing and is discarded, the second is retained
PruneDropsDeadAdder ==
    /\ opt_once # NotRun
    /\ opt_in.fa_ops = <<<<"x[0]", "x[0]", Lit0, "s_c0_0", "c_c0_0">>,
                         <<"x[0]", Lit1, Lit0, "s_c0_1", "c_c0_1">>>>
    /\ opt_in.maj_signal = "c_c0_1"
    /\ opt_once.fa_ops = <<<<"x[0]", Lit1, Lit0, "s_c0_1", "c_c0_1">>>>

---------------------------------------------------------------------------
\* the value a `.names` table gives its output: 1 when a row matches the
\* values of the listed inputs
TableValue(line, env) ==
    IF \E r \in 1..Len(line.rows) : \A i \in 1..3 : line.rows[r][i] = env[line.names[i]]
    THEN 1 ELSE 0

\* the values of all signals after the tables of lines, read in order
RECURSIVE TablesEnv(_, _, _)
TablesEnv(lines, i, env) ==
    IF i > Len(lines) THEN env
    ELSE TablesEnv(lines, i + 1, (lines[i].out :> TableValue(lines[i], env)) @@ env)

\* C23 as stated: for every adder the canonical emitter lowers, operands
\* repeated or not, and every assignment of bit values to its operand
\* signals, the emitted truth tables give k = majority(a, b, cin) and
\* s = parity(a, b, cin), in the majority-only and in the mixed form.
LoweredAdderAdds ==
    (gate # NotRun /\ gate.kind = "fa" /\ out # <<>>) =>
        \A val \in [{"x0", "x1"} -> {0, 1}] :
            LET env0 == ("CONST0" :> 0) @@ val
                env == TablesEnv(out, 1, env0)
                ones == env0[map_in(gate.a)] + env0[map_in(gate.b)] + env0[map_in(gate.cin)]
            IN /\ env["c_c0_0"] = (IF ones >= 2 THEN 1 ELSE 0)
               /\ env["s_c0_0"] = ones % 2

---------------------------------------------------------------------------
\* C24 as stated: the layout labelled 'clustered' holds the n real inputs in
\* index order, then all num_fix constant-1 slots, then all num_fix
\* constant-0 slots, for every num_fix >= 1.
ClusteredIsRealsOnesZeros ==
    (sc_layouts # <<>> /\ sc_cfg.num_fix >= 1) =>
        /\ sc_layouts[1][1] = "clustered"
        /\ _tokens_to_mapping(sc_layouts[1][2])
              = [i \in 1..(sc_cfg.n + 2 * sc_cfg.num_fix) |->
                    IF i <= sc_cfg.n THEN XName(i - 1)
                    ELSE IF i <= sc_cfg.n + sc_cfg.num_fix THEN Lit1 ELSE Lit0]

---------------------------------------------------------------------------
\* C25 as stated: after the call of csa_macro_schedule_all_columns the
\* caller's raw_inputs and const_names_per_col hold what they held before the
\* call, and a second call with the same map object returns the same
\* operation list.
SchedulerLeavesArguments ==
    sched.status = "ok" =>
        /\ raw_inputs = sched.arg_raw_inputs
        /\ const_names_per_col = sched.arg_const_names_per_col
        /\ csa_macro_schedule_all_columns(raw_inputs, const_names_per_col).ops = sched.ops

---------------------------------------------------------------------------
\* C26: for every FAN in dependency order and every assignment of bit values
\* to its primary input, the decision signal of the FAN that
\* _constant_fold_and_prune returns has the value the decision signal of the
\* FAN had before.
OptimizerPreservesDecision ==
    (opt_once # NotRun) =>
        \A v \in {0, 1} :
            Decide(opt_once.fa_ops, opt_once.maj_signal, <<>>, ("x[0]" :> v))
                = Decide(opt_in.fa_ops, opt_in.maj_signal, <<>>, ("x[0]" :> v))

\* the first adder is folded to sum 0 and carry 1, the second one is kept
\* and its carry is x[0]
OptimizerPreservesCarryOfSecond ==
    /\ opt_once # NotRun
    /\ opt_in.fa_ops = <<<<Lit1, Lit1, Lit0, "s_c0_0", "c_c0_0">>,
                         <<"s_c0_0", "x[0]", "c_c0_0", "s_c0_1", "c_c0_1">>>>
    /\ opt_in.maj_signal = "c_c0_1"
    /\ Len(opt_once.fa_ops) = 1
    /\ \A v \in {0, 1} : Decide(opt_once.fa_ops, opt_once.maj_signal, <<>>, ("x[0]" :> v)) = v

---------------------------------------------------------------------------
\* the number of tokens column col of the bias-folded schedule receives: the
\* raw inputs (column 0) or the carries of the column below, and K<col> when
\* that bit of K is set
BiasTokensInto(ops, nn, P, col) ==
    (IF col = 0 THEN nn ELSE Cardinality({i \in 1..Len(ops) : ops[i][1] = col - 1}))
        + Bit(P.K, col)

\* C27: for every odd n >= 3 column w-1 of the bias-folded schedule receives
\* exactly three tokens, exactly one adder is created at column w-1 and none
\* at a column >= w, and every adder feeds the decision: dead-code
\* elimination and the whole optimizer return the FAN unchanged.
TopColumnFoldsThreeTokens ==
    (fb.status = "ok" /\ fbn.status = "ok") =>
        /\ BiasTokensInto(fb.ops, n, bias_params(n), bias_params(n).w - 1) = 3
        /\ Cardinality({i \in 1..Len(fb.ops) : fb.ops[i][1] = bias_params(n).w - 1}) = 1
        /\ \A i \in 1..Len(fb.ops) : fb.ops[i][1] < bias_params(n).w
        /\ _prune_fa_netlist(Strip(fb.ops), fb.maj_signal) = Strip(fb.ops)
        /\ _prune_fa_netlist(fbn.fa_ops, fbn.maj_signal) = fbn.fa_ops
        /\ _constant_fold_and_prune(fbn.fa_ops, fbn.maj_signal)
              = [fa_ops |-> fbn.fa_ops, maj_signal |-> fbn.maj_signal]

\* n = 9: w = 3, the three adders of column 1 send three carries to column
\* 2, whose only adder is the last of the nine
TopColumnOfNine ==
    /\ n = 9 /\ fb.status = "ok" /\ fbn.status = "ok"
    /\ {i \in 1..Len(fb.ops) : fb.ops[i][1] = 1} = {6, 7, 8}
    /\ Len(fb.ops) = 9
    /\ fb.ops[9] = <<2, "triple", "c_c1_5", "c_c1_6", "p_c_c1_7", "s_c2_8", "c_c2_8">>

---------------------------------------------------------------------------
\* C28: for every odd n >= 3 the operation list emit_folded_bias returns,
\* column and kind dropped, its constant list and its decision signal are
\* the operation list, constant list and decision signal
\* build_folded_bias_netlist returns, names and order included.
FoldedBiasBuildersAgree ==
    (fb.status = "ok" /\ fbn.status = "ok") =>
        /\ Strip(fb.ops) = fbn.fa_ops
        /\ fb.const1_names = fbn.const1_names
        /\ fb.maj_signal = fbn.maj_signal

\* n = 13: eleven operations, the constant K0 and the decision c_c2_10 in both
FoldedBiasBuildersAgreeOnThirteen ==
    /\ n = 13 /\ fb.status = "ok" /\ fbn.status = "ok"
    /\ Len(fbn.fa_ops) = 11 /\ Len(fb.ops) = 11
    /\ fbn.const1_names = <<"K0">> /\ fb.const1_names = <<"K0">>
    /\ fbn.maj_signal = "c_c2_10" /\ fb.maj_signal = "c_c2_10"
    /\ fbn.fa_ops[11] = <<fb.ops[11][3], fb.ops[11][4], fb.ops[11][5], "s_c2_10", "c_c2_10">>

---------------------------------------------------------------------------
\* C29: when the scaffold search runs on the bias-folded network of n + 2
\* inputs with one constant pair, no candidate layout lets the optimizer
\* fold or discard an operation: all 16 candidates keep the operation count
\* of the (n+2)-input network, and the layout returned is 'clustered'.
OnePairFoldsNothing ==
    (ScaffoldSelected /\ sc_cfg.kind = "fb" /\ sc_cfg.num_fix = 1) =>
        /\ Len(sc_cands) = 16
        /\ \A i \in 1..Len(sc_cands) :
                /\ Len(sc_cands[i].fa_ops) = Len(sc_big.fa_ops)
                /\ sc_cands[i].fa_ops
                      = _apply_mapping_to_netlist(sc_big.fa_ops, sc_big.maj_signal,
                                                  sc_cands[i].mapping).fa_ops
        /\ sc_best.label = "clustered"
        /\ sc_best.score = <<Len(sc_big.fa_ops), 0>>

\* n = 9 in the 11-input network: nine operations in the network and in the
\* selected candidate, whose mapping ends with 1'b1, 1'b0
OnePairNineIntoEleven ==
    /\ ScaffoldSelected
    /\ sc_cfg = [n |-> 9, num_fix |-> 1, kind |-> "fb"]
    /\ Len(sc_big.fa_ops) = 9
    /\ Len(sc_best.fa_ops) = 9
    /\ sc_best.label = "clustered"
    /\ sc_best.mapping[10] = Lit1 /\ sc_best.mapping[11] = Lit0

---------------------------------------------------------------------------
\* tokens waiting at column c of a frame: queued bits and constants not yet injected
SchedTokensAt(st, c) ==
    Len(DictGet(st.col_bits, c, <<>>)) + Len(DictGet(st.cnpc, c, <<>>))

\* stage A, stage B and the fold of column 0 queue at column 1 at most half
\* of the raw inputs and constants of column 0
SchedEnterHalves ==
    (sched_st = NotRun /\ sched_st'.status = "loop") =>
        /\ sched_st'.st.current = 1
        /\ Len(DictGet(sched_st'.st.col_bits, 1, <<>>)) * 2
              <= Len(raw_inputs) + Len(DictGet(const_names_per_col, 0, <<>>))
        /\ \A i \in 1..Len(sched_st'.st.ops) : sched_st'.st.ops[i][1] = 0

\* an iteration folds the lowest column at or above `current` that has a
\* token, empties it, adds operations of that column only, queues at the
\* next column at most half of the tokens it folded, and moves `current`
\* past it
SchedStepFoldsInOrder ==
    (sched_st.status = "loop" /\ sched_st'.status = "loop" /\ sched_st' # sched_st) =>
        LET before == sched_st.st
            after == sched_st'.st
            j == after.current - 1
        IN  /\ j >= before.current
            /\ SchedTokensAt(before, j) > 0
            /\ \A c \in before.current..(j - 1) : SchedTokensAt(before, c) = 0
            /\ SchedTokensAt(after, j) = 0
            /\ (Len(DictGet(after.col_bits, j + 1, <<>>))
                  - Len(DictGet(before.col_bits, j + 1, <<>>))) * 2
                  <= SchedTokensAt(before, j)
            /\ Len(after.ops) >= Len(before.ops)
            /\ \A i \in (Len(before.ops) + 1)..Len(after.ops) : after.ops[i][1] = j
            /\ \A c \in (DOMAIN before.col_bits) \cup (DOMAIN before.cnpc) :
                    c > j + 1 => SchedTokensAt(after, c) = SchedTokensAt(before, c)

\* at the return no column at or above `current` holds a token
SchedNothingPending ==
    sched_st.status = "returned" =>
        /\ sched # NotRun
        /\ \A c \in (DOMAIN sched_st.st.col_bits) \cup (DOMAIN sched_st.st.cnpc) :
                c >= sched_st.st.current => SchedTokensAt(sched_st.st, c) = 0

\* C30: every call of csa_macro_schedule_all_columns returns; its loop folds
\* columns in strictly increasing order (so each column once), each fold
\* queues at column j+1 at most half of the tokens of column j (queued bits
\* plus injected constants), and the loop ends when no column at or above
\* `current` has a pending token.
SchedulerTerminates ==
    /\ <>(sched_st.status = "returned")
    /\ [][SchedEnterHalves /\ SchedStepFoldsInOrder]_vars
    /\ [](SchedNothingPending)

\* five raw inputs and two constants at each of columns 0..2: the call
\* returned after folding columns 1, 2, 3 and 4 in four iterations
SchedulerFoldedFiveColumns ==
    /\ sched_st.status = "returned"
    /\ Len(raw_inputs) = 5
    /\ sched_st.st.current = 5
    /\ sched_iter = 6
    /\ DOMAIN sched.residual_by_col = 0..4
    /\ Len(sched.const_decl) = 6

===========================================================================
